---------------------------- MODULE Spec2Model ----------------------------
(***************************************************************************)
(* A model of rpng (src/src/rpng.h): the PNG chunk engine and the image    *)
(* codec, at byte level.                                                   *)
(*                                                                         *)
(* Conventions.  A byte is a number in 0..255 and a buffer is a sequence   *)
(* of bytes; C offsets count from 0 (At, Bytes).  A C "unsigned int" is a  *)
(* 4-tuple of bytes, most significant first (TLC's integers are 32-bit     *)
(* signed and cannot hold a CRC).  The host is little-endian: memcpy of an *)
(* unsigned int writes its least significant byte first.  A C loop is      *)
(* Loop(body, state, n): the body applied until the state is finished,     *)
(* n being a number of rounds the loop cannot exceed.                      *)
(***************************************************************************)
EXTENDS Integers, Sequences, FiniteSets, TLC

VARIABLES
    buffer,     \* the PNG stream the program holds (file_data / output_buffer)
    image,      \* the image last handed to rpng_save_image_to_memory
    call,       \* the last call that made a stream: name, arguments, input, result
    prev,       \* the call before it
    edits,      \* number of streams made from the saved one
    query       \* the last call that only read buffer, and its result

vars == <<buffer, image, call, prev, edits, query>>

----------------------------------------------------------------------------
(* Evaluation *)

\* e, with v evaluated first.  TLC hands operator arguments on unevaluated;
\* a loop that passes its state along without reading it would build a
\* chain of pending values as long as the loop.
Having(v, e) == IF v = v THEN e ELSE e

\* In(v): a value that is used several times is computed in one place
With(v, In(_)) == In(v)

\* F applied n times to st, by halves.  Every loop body of the model leaves
\* a finished state as it is, so n only has to be large enough.
RECURSIVE Loop(_, _, _)
Loop(F(_), st, n) ==
    IF n <= 0 THEN st
    ELSE IF n = 1 THEN F(st)
    ELSE LET half == Loop(F, st, n \div 2)
         IN  Having(half, Loop(F, half, n - (n \div 2)))

\* F applied until st.done, n times at the most, by halves
RECURSIVE Until(_, _, _)
Until(F(_), st, n) ==
    IF n <= 0 \/ st.done THEN st
    ELSE IF n = 1 THEN F(st)
    ELSE LET half == Until(F, st, n \div 2)
         IN  Having(half, Until(F, half, n - (n \div 2)))

----------------------------------------------------------------------------
(* Bytes and 32-bit words *)

Byte == 0..255

\* the C indexing buf[i], i from 0
At(buf, i) == buf[i + 1]

\* the n bytes of buf from C offset off on
Bytes(buf, off, n) == SubSeq(buf, off + 1, off + n)

\* calloc(n, 1)
Zeros(n) == [i \in 1..n |-> 0]

\* bitwise xor of two numbers below 16: Xor4[a + 1][b + 1] = a ^ b
Xor4 ==
    <<
      << 0,  1,  2,  3,  4,  5,  6,  7,  8,  9, 10, 11, 12, 13, 14, 15>>,
      << 1,  0,  3,  2,  5,  4,  7,  6,  9,  8, 11, 10, 13, 12, 15, 14>>,
      << 2,  3,  0,  1,  6,  7,  4,  5, 10, 11,  8,  9, 14, 15, 12, 13>>,
      << 3,  2,  1,  0,  7,  6,  5,  4, 11, 10,  9,  8, 15, 14, 13, 12>>,
      << 4,  5,  6,  7,  0,  1,  2,  3, 12, 13, 14, 15,  8,  9, 10, 11>>,
      << 5,  4,  7,  6,  1,  0,  3,  2, 13, 12, 15, 14,  9,  8, 11, 10>>,
      << 6,  7,  4,  5,  2,  3,  0,  1, 14, 15, 12, 13, 10, 11,  8,  9>>,
      << 7,  6,  5,  4,  3,  2,  1,  0, 15, 14, 13, 12, 11, 10,  9,  8>>,
      << 8,  9, 10, 11, 12, 13, 14, 15,  0,  1,  2,  3,  4,  5,  6,  7>>,
      << 9,  8, 11, 10, 13, 12, 15, 14,  1,  0,  3,  2,  5,  4,  7,  6>>,
      <<10, 11,  8,  9, 14, 15, 12, 13,  2,  3,  0,  1,  6,  7,  4,  5>>,
      <<11, 10,  9,  8, 15, 14, 13, 12,  3,  2,  1,  0,  7,  6,  5,  4>>,
      <<12, 13, 14, 15,  8,  9, 10, 11,  4,  5,  6,  7,  0,  1,  2,  3>>,
      <<13, 12, 15, 14,  9,  8, 11, 10,  5,  4,  7,  6,  1,  0,  3,  2>>,
      <<14, 15, 12, 13, 10, 11,  8,  9,  6,  7,  4,  5,  2,  3,  0,  1>>,
      <<15, 14, 13, 12, 11, 10,  9,  8,  7,  6,  5,  4,  3,  2,  1,  0>>
    >>

XorByte(a, b) ==
    16 * Xor4[(a \div 16) + 1][(b \div 16) + 1] + Xor4[(a % 16) + 1][(b % 16) + 1]

\* an unsigned int holding a small non-negative number
U32(n) == <<(n \div 16777216) % 256, (n \div 65536) % 256, (n \div 256) % 256, n % 256>>

\* the number an unsigned int below 2^31 holds
ToInt(v) == ((v[1] * 256 + v[2]) * 256 + v[3]) * 256 + v[4]

Xor32(v, w) ==
    <<XorByte(v[1], w[1]), XorByte(v[2], w[2]), XorByte(v[3], w[3]), XorByte(v[4], w[4])>>

\* v >> 8
Shr8(v) == <<0, v[1], v[2], v[3]>>

\* ~v
Not32(v) == <<255 - v[1], 255 - v[2], 255 - v[3], 255 - v[4]>>

\* memcpy(dst, &v, 4) on a little-endian host
Store32(v) == <<v[4], v[3], v[2], v[1]>>

\* ((unsigned int *)p)[0] on a little-endian host; p is a 4-byte buffer
Load32(p) == <<p[4], p[3], p[2], p[1]>>

swap_endian(value) ==
    LET b0 == value[4]      \* (value & 0x000000ff) << 24
        b1 == value[3]      \* (value & 0x0000ff00) << 8
        b2 == value[2]      \* (value & 0x00ff0000) >> 8
        b3 == value[1]      \* (value & 0xff000000) >> 24
    IN  <<b0, b1, b2, b3>>

crc_table == <<
    <<\h00,\h00,\h00,\h00>>, <<\h77,\h07,\h30,\h96>>, <<\hEE,\h0E,\h61,\h2C>>, <<\h99,\h09,\h51,\hBA>>,
    <<\h07,\h6D,\hC4,\h19>>, <<\h70,\h6A,\hF4,\h8F>>, <<\hE9,\h63,\hA5,\h35>>, <<\h9E,\h64,\h95,\hA3>>,
    <<\h0E,\hDB,\h88,\h32>>, <<\h79,\hDC,\hB8,\hA4>>, <<\hE0,\hD5,\hE9,\h1E>>, <<\h97,\hD2,\hD9,\h88>>,
    <<\h09,\hB6,\h4C,\h2B>>, <<\h7E,\hB1,\h7C,\hBD>>, <<\hE7,\hB8,\h2D,\h07>>, <<\h90,\hBF,\h1D,\h91>>,
    <<\h1D,\hB7,\h10,\h64>>, <<\h6A,\hB0,\h20,\hF2>>, <<\hF3,\hB9,\h71,\h48>>, <<\h84,\hBE,\h41,\hDE>>,
    <<\h1A,\hDA,\hD4,\h7D>>, <<\h6D,\hDD,\hE4,\hEB>>, <<\hF4,\hD4,\hB5,\h51>>, <<\h83,\hD3,\h85,\hC7>>,
    <<\h13,\h6C,\h98,\h56>>, <<\h64,\h6B,\hA8,\hC0>>, <<\hFD,\h62,\hF9,\h7A>>, <<\h8A,\h65,\hC9,\hEC>>,
    <<\h14,\h01,\h5C,\h4F>>, <<\h63,\h06,\h6C,\hD9>>, <<\hFA,\h0F,\h3D,\h63>>, <<\h8D,\h08,\h0D,\hF5>>,
    <<\h3B,\h6E,\h20,\hC8>>, <<\h4C,\h69,\h10,\h5E>>, <<\hD5,\h60,\h41,\hE4>>, <<\hA2,\h67,\h71,\h72>>,
    <<\h3C,\h03,\hE4,\hD1>>, <<\h4B,\h04,\hD4,\h47>>, <<\hD2,\h0D,\h85,\hFD>>, <<\hA5,\h0A,\hB5,\h6B>>,
    <<\h35,\hB5,\hA8,\hFA>>, <<\h42,\hB2,\h98,\h6C>>, <<\hDB,\hBB,\hC9,\hD6>>, <<\hAC,\hBC,\hF9,\h40>>,
    <<\h32,\hD8,\h6C,\hE3>>, <<\h45,\hDF,\h5C,\h75>>, <<\hDC,\hD6,\h0D,\hCF>>, <<\hAB,\hD1,\h3D,\h59>>,
    <<\h26,\hD9,\h30,\hAC>>, <<\h51,\hDE,\h00,\h3A>>, <<\hC8,\hD7,\h51,\h80>>, <<\hBF,\hD0,\h61,\h16>>,
    <<\h21,\hB4,\hF4,\hB5>>, <<\h56,\hB3,\hC4,\h23>>, <<\hCF,\hBA,\h95,\h99>>, <<\hB8,\hBD,\hA5,\h0F>>,
    <<\h28,\h02,\hB8,\h9E>>, <<\h5F,\h05,\h88,\h08>>, <<\hC6,\h0C,\hD9,\hB2>>, <<\hB1,\h0B,\hE9,\h24>>,
    <<\h2F,\h6F,\h7C,\h87>>, <<\h58,\h68,\h4C,\h11>>, <<\hC1,\h61,\h1D,\hAB>>, <<\hB6,\h66,\h2D,\h3D>>,
    <<\h76,\hDC,\h41,\h90>>, <<\h01,\hDB,\h71,\h06>>, <<\h98,\hD2,\h20,\hBC>>, <<\hEF,\hD5,\h10,\h2A>>,
    <<\h71,\hB1,\h85,\h89>>, <<\h06,\hB6,\hB5,\h1F>>, <<\h9F,\hBF,\hE4,\hA5>>, <<\hE8,\hB8,\hD4,\h33>>,
    <<\h78,\h07,\hC9,\hA2>>, <<\h0F,\h00,\hF9,\h34>>, <<\h96,\h09,\hA8,\h8E>>, <<\hE1,\h0E,\h98,\h18>>,
    <<\h7F,\h6A,\h0D,\hBB>>, <<\h08,\h6D,\h3D,\h2D>>, <<\h91,\h64,\h6C,\h97>>, <<\hE6,\h63,\h5C,\h01>>,
    <<\h6B,\h6B,\h51,\hF4>>, <<\h1C,\h6C,\h61,\h62>>, <<\h85,\h65,\h30,\hD8>>, <<\hF2,\h62,\h00,\h4E>>,
    <<\h6C,\h06,\h95,\hED>>, <<\h1B,\h01,\hA5,\h7B>>, <<\h82,\h08,\hF4,\hC1>>, <<\hF5,\h0F,\hC4,\h57>>,
    <<\h65,\hB0,\hD9,\hC6>>, <<\h12,\hB7,\hE9,\h50>>, <<\h8B,\hBE,\hB8,\hEA>>, <<\hFC,\hB9,\h88,\h7C>>,
    <<\h62,\hDD,\h1D,\hDF>>, <<\h15,\hDA,\h2D,\h49>>, <<\h8C,\hD3,\h7C,\hF3>>, <<\hFB,\hD4,\h4C,\h65>>,
    <<\h4D,\hB2,\h61,\h58>>, <<\h3A,\hB5,\h51,\hCE>>, <<\hA3,\hBC,\h00,\h74>>, <<\hD4,\hBB,\h30,\hE2>>,
    <<\h4A,\hDF,\hA5,\h41>>, <<\h3D,\hD8,\h95,\hD7>>, <<\hA4,\hD1,\hC4,\h6D>>, <<\hD3,\hD6,\hF4,\hFB>>,
    <<\h43,\h69,\hE9,\h6A>>, <<\h34,\h6E,\hD9,\hFC>>, <<\hAD,\h67,\h88,\h46>>, <<\hDA,\h60,\hB8,\hD0>>,
    <<\h44,\h04,\h2D,\h73>>, <<\h33,\h03,\h1D,\hE5>>, <<\hAA,\h0A,\h4C,\h5F>>, <<\hDD,\h0D,\h7C,\hC9>>,
    <<\h50,\h05,\h71,\h3C>>, <<\h27,\h02,\h41,\hAA>>, <<\hBE,\h0B,\h10,\h10>>, <<\hC9,\h0C,\h20,\h86>>,
    <<\h57,\h68,\hB5,\h25>>, <<\h20,\h6F,\h85,\hB3>>, <<\hB9,\h66,\hD4,\h09>>, <<\hCE,\h61,\hE4,\h9F>>,
    <<\h5E,\hDE,\hF9,\h0E>>, <<\h29,\hD9,\hC9,\h98>>, <<\hB0,\hD0,\h98,\h22>>, <<\hC7,\hD7,\hA8,\hB4>>,
    <<\h59,\hB3,\h3D,\h17>>, <<\h2E,\hB4,\h0D,\h81>>, <<\hB7,\hBD,\h5C,\h3B>>, <<\hC0,\hBA,\h6C,\hAD>>,
    <<\hED,\hB8,\h83,\h20>>, <<\h9A,\hBF,\hB3,\hB6>>, <<\h03,\hB6,\hE2,\h0C>>, <<\h74,\hB1,\hD2,\h9A>>,
    <<\hEA,\hD5,\h47,\h39>>, <<\h9D,\hD2,\h77,\hAF>>, <<\h04,\hDB,\h26,\h15>>, <<\h73,\hDC,\h16,\h83>>,
    <<\hE3,\h63,\h0B,\h12>>, <<\h94,\h64,\h3B,\h84>>, <<\h0D,\h6D,\h6A,\h3E>>, <<\h7A,\h6A,\h5A,\hA8>>,
    <<\hE4,\h0E,\hCF,\h0B>>, <<\h93,\h09,\hFF,\h9D>>, <<\h0A,\h00,\hAE,\h27>>, <<\h7D,\h07,\h9E,\hB1>>,
    <<\hF0,\h0F,\h93,\h44>>, <<\h87,\h08,\hA3,\hD2>>, <<\h1E,\h01,\hF2,\h68>>, <<\h69,\h06,\hC2,\hFE>>,
    <<\hF7,\h62,\h57,\h5D>>, <<\h80,\h65,\h67,\hCB>>, <<\h19,\h6C,\h36,\h71>>, <<\h6E,\h6B,\h06,\hE7>>,
    <<\hFE,\hD4,\h1B,\h76>>, <<\h89,\hD3,\h2B,\hE0>>, <<\h10,\hDA,\h7A,\h5A>>, <<\h67,\hDD,\h4A,\hCC>>,
    <<\hF9,\hB9,\hDF,\h6F>>, <<\h8E,\hBE,\hEF,\hF9>>, <<\h17,\hB7,\hBE,\h43>>, <<\h60,\hB0,\h8E,\hD5>>,
    <<\hD6,\hD6,\hA3,\hE8>>, <<\hA1,\hD1,\h93,\h7E>>, <<\h38,\hD8,\hC2,\hC4>>, <<\h4F,\hDF,\hF2,\h52>>,
    <<\hD1,\hBB,\h67,\hF1>>, <<\hA6,\hBC,\h57,\h67>>, <<\h3F,\hB5,\h06,\hDD>>, <<\h48,\hB2,\h36,\h4B>>,
    <<\hD8,\h0D,\h2B,\hDA>>, <<\hAF,\h0A,\h1B,\h4C>>, <<\h36,\h03,\h4A,\hF6>>, <<\h41,\h04,\h7A,\h60>>,
    <<\hDF,\h60,\hEF,\hC3>>, <<\hA8,\h67,\hDF,\h55>>, <<\h31,\h6E,\h8E,\hEF>>, <<\h46,\h69,\hBE,\h79>>,
    <<\hCB,\h61,\hB3,\h8C>>, <<\hBC,\h66,\h83,\h1A>>, <<\h25,\h6F,\hD2,\hA0>>, <<\h52,\h68,\hE2,\h36>>,
    <<\hCC,\h0C,\h77,\h95>>, <<\hBB,\h0B,\h47,\h03>>, <<\h22,\h02,\h16,\hB9>>, <<\h55,\h05,\h26,\h2F>>,
    <<\hC5,\hBA,\h3B,\hBE>>, <<\hB2,\hBD,\h0B,\h28>>, <<\h2B,\hB4,\h5A,\h92>>, <<\h5C,\hB3,\h6A,\h04>>,
    <<\hC2,\hD7,\hFF,\hA7>>, <<\hB5,\hD0,\hCF,\h31>>, <<\h2C,\hD9,\h9E,\h8B>>, <<\h5B,\hDE,\hAE,\h1D>>,
    <<\h9B,\h64,\hC2,\hB0>>, <<\hEC,\h63,\hF2,\h26>>, <<\h75,\h6A,\hA3,\h9C>>, <<\h02,\h6D,\h93,\h0A>>,
    <<\h9C,\h09,\h06,\hA9>>, <<\hEB,\h0E,\h36,\h3F>>, <<\h72,\h07,\h67,\h85>>, <<\h05,\h00,\h57,\h13>>,
    <<\h95,\hBF,\h4A,\h82>>, <<\hE2,\hB8,\h7A,\h14>>, <<\h7B,\hB1,\h2B,\hAE>>, <<\h0C,\hB6,\h1B,\h38>>,
    <<\h92,\hD2,\h8E,\h9B>>, <<\hE5,\hD5,\hBE,\h0D>>, <<\h7C,\hDC,\hEF,\hB7>>, <<\h0B,\hDB,\hDF,\h21>>,
    <<\h86,\hD3,\hD2,\hD4>>, <<\hF1,\hD4,\hE2,\h42>>, <<\h68,\hDD,\hB3,\hF8>>, <<\h1F,\hDA,\h83,\h6E>>,
    <<\h81,\hBE,\h16,\hCD>>, <<\hF6,\hB9,\h26,\h5B>>, <<\h6F,\hB0,\h77,\hE1>>, <<\h18,\hB7,\h47,\h77>>,
    <<\h88,\h08,\h5A,\hE6>>, <<\hFF,\h0F,\h6A,\h70>>, <<\h66,\h06,\h3B,\hCA>>, <<\h11,\h01,\h0B,\h5C>>,
    <<\h8F,\h65,\h9E,\hFF>>, <<\hF8,\h62,\hAE,\h69>>, <<\h61,\h6B,\hFF,\hD3>>, <<\h16,\h6C,\hCF,\h45>>,
    <<\hA0,\h0A,\hE2,\h78>>, <<\hD7,\h0D,\hD2,\hEE>>, <<\h4E,\h04,\h83,\h54>>, <<\h39,\h03,\hB3,\hC2>>,
    <<\hA7,\h67,\h26,\h61>>, <<\hD0,\h60,\h16,\hF7>>, <<\h49,\h69,\h47,\h4D>>, <<\h3E,\h6E,\h77,\hDB>>,
    <<\hAE,\hD1,\h6A,\h4A>>, <<\hD9,\hD6,\h5A,\hDC>>, <<\h40,\hDF,\h0B,\h66>>, <<\h37,\hD8,\h3B,\hF0>>,
    <<\hA9,\hBC,\hAE,\h53>>, <<\hDE,\hBB,\h9E,\hC5>>, <<\h47,\hB2,\hCF,\h7F>>, <<\h30,\hB5,\hFF,\hE9>>,
    <<\hBD,\hBD,\hF2,\h1C>>, <<\hCA,\hBA,\hC2,\h8A>>, <<\h53,\hB3,\h93,\h30>>, <<\h24,\hB4,\hA3,\hA6>>,
    <<\hBA,\hD0,\h36,\h05>>, <<\hCD,\hD7,\h06,\h93>>, <<\h54,\hDE,\h57,\h29>>, <<\h23,\hD9,\h67,\hBF>>,
    <<\hB3,\h66,\h7A,\h2E>>, <<\hC4,\h61,\h4A,\hB8>>, <<\h5D,\h68,\h1B,\h02>>, <<\h2A,\h6F,\h2B,\h94>>,
    <<\hB4,\h0B,\hBE,\h37>>, <<\hC3,\h0C,\h8E,\hA1>>, <<\h5A,\h05,\hDF,\h1B>>, <<\h2D,\h02,\hEF,\h8D>>>>

\* one round of the loop of compute_crc32: the crc after the byte b,
\* crc_table[(crc ^ b) & 0xFF] ^ (crc >> 8)
crc32_step(crc, b) == Xor32(crc_table[XorByte(b, crc[4]) + 1], Shr8(crc))

\* the state of the loop is [crc, n]: n bytes of buf are in crc
crc32_round(st, buf) ==
    IF st.n >= Len(buf) THEN st
    ELSE [crc |-> crc32_step(st.crc, At(buf, st.n)), n |-> st.n + 1]

compute_crc32(buf) ==
    LET crc == <<255, 255, 255, 255>>       \* ~0u
        end == Loop(LAMBDA st : crc32_round(st, buf), [crc |-> crc, n |-> 0], Len(buf))
    IN  Not32(end.crc)

\* a FOURCC as bytes
Ascii(ch) ==
    CASE ch = "I" -> 73 [] ch = "H" -> 72 [] ch = "D" -> 68 [] ch = "R" -> 82
      [] ch = "A" -> 65 [] ch = "T" -> 84 [] ch = "E" -> 69 [] ch = "N" -> 78
      [] ch = "P" -> 80 [] ch = "L" -> 76 [] ch = "t" -> 116 [] ch = "X" -> 88
      [] ch = "S" -> 83 [] ch = "r" -> 114 [] ch = "G" -> 71 [] ch = "g" -> 103
      [] ch = "M" -> 77

FourCC(a, b, c, d) == <<Ascii(a), Ascii(b), Ascii(c), Ascii(d)>>
IHDR == FourCC("I", "H", "D", "R")
IDAT == FourCC("I", "D", "A", "T")
IEND == FourCC("I", "E", "N", "D")
PLTE == FourCC("P", "L", "T", "E")
tRNS == FourCC("t", "R", "N", "S")
tEXt == FourCC("t", "E", "X", "t")

png_signature == <<\h89, \h50, \h4E, \h47, \h0D, \h0A, \h1A, \h0A>>

----------------------------------------------------------------------------
(* Limits of the library *)

RPNG_MAX_CHUNKS_COUNT == 64
RPNG_MAX_OUTPUT_SIZE == 33554432      \* 32*1024*1024
SDEFL_BLK_MAX == 262144               \* 256*1024
SDEFL_EOB == 256
ADLER_MOD == 65521
ADLER_BLK == 5552

----------------------------------------------------------------------------
(* zlib framing of the deflate stream (sdefl / sinfl)                      *)
(*                                                                         *)
(* The bit writer, the zlib header, the block header bits, the final       *)
(* padding and the Adler-32 trailer are those of the source.  The Huffman  *)
(* coding of a block is abstracted: the model codes every byte as a 9-bit  *)
(* literal symbol and the end of block as symbol 256, in place of the      *)
(* dynamic tables and LZ77 matches of sdefl_flush, and the decoder reads   *)
(* the same symbols.  What is kept: the stream is a bit stream, it is not  *)
(* the input, it ends with an end-of-block symbol, and a decoder that does *)
(* not find that symbol runs past the bytes it was given.                  *)

\* sdefl_put: the writer is [bits, bitcnt, out]; at most 16 pending bits
sdefl_put(s, code, bitcnt) ==
    LET bits == s.bits + code * 2^s.bitcnt          \* s->bits |= (code << s->bitcnt)
        cnt  == s.bitcnt + bitcnt
    IN  IF cnt >= 16
        THEN [bits |-> bits \div 65536, bitcnt |-> cnt - 16,
              out |-> s.out \o <<bits % 256, (bits \div 256) % 256>>]
        ELSE IF cnt >= 8
        THEN [bits |-> bits \div 256, bitcnt |-> cnt - 8, out |-> Append(s.out, bits % 256)]
        ELSE [bits |-> bits, bitcnt |-> cnt, out |-> s.out]

\* the symbols of a block: the loop state is [s, i], in[i] is the next byte
sdefl_literal(st, in, end) ==
    IF st.i >= end THEN st
    ELSE [s |-> sdefl_put(st.s, At(in, st.i), 9), i |-> st.i + 1]

\* one block: header bits, the block's symbols, end of block
sdefl_flush(s, is_last, in, from, to) ==
    LET h1 == sdefl_put(s, IF is_last THEN 1 ELSE 0, 1)     \* block
        h2 == sdefl_put(h1, 2, 2)                           \* dynamic huffman
        b  == Loop(LAMBDA st : sdefl_literal(st, in, to), [s |-> h2, i |-> from], to - from)
    IN  sdefl_put(b.s, SDEFL_EOB, 9)

\* do { ... sdefl_flush(...) } while (i < in_len): the state is [s, i, done]
sdefl_block(st, in) ==
    IF st.done THEN st
    ELSE LET in_len  == Len(in)
             blk_end == IF st.i + SDEFL_BLK_MAX < in_len THEN st.i + SDEFL_BLK_MAX ELSE in_len
         IN  [s |-> sdefl_flush(st.s, blk_end = in_len, in, st.i, blk_end),
              i |-> blk_end, done |-> ~(blk_end < in_len)]

\* returns the writer after the last block and the padding
sdefl_compr(s, in) ==
    With(Loop(LAMBDA st : sdefl_block(st, in), [s |-> s, i |-> 0, done |-> FALSE],
              (Len(in) \div SDEFL_BLK_MAX) + 1).s,
         LAMBDA q : IF q.bitcnt # 0 THEN sdefl_put(q, 0, 8 - q.bitcnt) ELSE q)

\* one byte of the checksum loop; the state is [s1, s2, n, blk_len]: n bytes
\* are summed and blk_len bytes are left before the next reduction
adler_byte(st, in) ==
    IF st.n >= Len(in) THEN st
    ELSE LET s1 == st.s1 + At(in, st.n)
             s2 == st.s2 + s1
         IN  IF st.blk_len = 1
             THEN [s1 |-> s1 % ADLER_MOD, s2 |-> s2 % ADLER_MOD, n |-> st.n + 1,
                   blk_len |-> ADLER_BLK]
             ELSE [s1 |-> s1, s2 |-> s2, n |-> st.n + 1, blk_len |-> st.blk_len - 1]

\* the checksum as an unsigned int: (s2 << 16) + s1, from SDEFL_ADLER_INIT
sdefl_adler32(in) ==
    LET in_len == Len(in)
        first  == IF in_len % ADLER_BLK = 0 THEN ADLER_BLK ELSE in_len % ADLER_BLK
    IN  With(Loop(LAMBDA st : adler_byte(st, in),
                  [s1 |-> 1, s2 |-> 0, n |-> 0, blk_len |-> first], in_len),
             LAMBDA a : <<a.s2 \div 256, a.s2 % 256, a.s1 \div 256, a.s1 % 256>>)

zsdeflate(in) ==
    LET s0 == [bits |-> 0, bitcnt |-> 0, out |-> <<>>]
        s1 == sdefl_put(s0, 120, 8)         \* 0x78: deflate, 32k window
        s2 == sdefl_put(s1, 1, 8)           \* 0x01: fast compression
        s3 == sdefl_compr(s2, in)
        a  == sdefl_adler32(in)
    IN  s3.out \o a                         \* (a >> 24) & 0xFF first

\* cnt <= 9 bits of in from bit position pos, least significant first
GetBits(in, pos, cnt) ==
    LET q == pos \div 8
        w == At(in, q) + (IF q + 1 < Len(in) THEN 256 * At(in, q + 1) ELSE 0)
    IN  (w \div 2^(pos % 8)) % 2^cnt

\* sinfl_decompress is a loop over the states hdr, dyn, blk.  The loop state
\* is [state, pos, out, last, overread, other]: pos is the number of bits
\* consumed, overread says that the decoder consumed bits past the end of
\* in, other that it met something this model does not decode (a stored or
\* fixed block, a match).  The decoder has no end-of-input test of its own:
\* past the end it decodes whatever memory follows.  Bits are counted as they
\* are consumed; the 8-byte window of sinfl_refill is not modelled.
sinfl_stop(st) == [st EXCEPT !.state = "done"]

\* state hdr: block header
sinfl_hdr(st, in) ==
    IF st.pos + 3 > 8 * Len(in) THEN [sinfl_stop(st) EXCEPT !.overread = TRUE]
    ELSE LET last == GetBits(in, st.pos, 1)
             type == GetBits(in, st.pos + 1, 2)
             read == [st EXCEPT !.pos = st.pos + 3, !.last = last]
         IN  CASE type = 2 -> [read EXCEPT !.state = "dyn"]
               [] type = 3 -> sinfl_stop(read)                 \* default: return
               [] OTHER    -> [sinfl_stop(read) EXCEPT !.other = TRUE]

\* state dyn: the code length tables (abstracted: nothing to read)
sinfl_dyn(st, in) == [st EXCEPT !.state = "blk"]

\* after a symbol that is no literal: end of block, or a match
sinfl_end_or_match(st, sym) ==
    IF sym = SDEFL_EOB
    THEN IF st.last = 1 THEN sinfl_stop(st) ELSE [st EXCEPT !.state = "hdr"]
    ELSE [sinfl_stop(st) EXCEPT !.other = TRUE]

\* state blk, one round of its while (1): a literal, stored if two bytes of
\* out are free, then the symbol after it
sinfl_blk(st, in, cap) ==
    IF st.pos + 9 > 8 * Len(in) THEN [sinfl_stop(st) EXCEPT !.overread = TRUE]
    ELSE LET sym == GetBits(in, st.pos, 9)
             one == [st EXCEPT !.pos = st.pos + 9]
         IN  IF sym < 256
             THEN IF Len(st.out) + 1 >= cap THEN sinfl_stop(one)
                  ELSE LET lit == [one EXCEPT !.out = Append(st.out, sym)]
                       IN  IF lit.pos + 9 > 8 * Len(in)
                           THEN [sinfl_stop(lit) EXCEPT !.overread = TRUE]
                           ELSE LET sym2 == GetBits(in, lit.pos, 9)
                                    two  == [lit EXCEPT !.pos = lit.pos + 9]
                                IN  IF sym2 < 256
                                    THEN [two EXCEPT !.out = Append(lit.out, sym2)]
                                    ELSE sinfl_end_or_match(two, sym2)
             ELSE sinfl_end_or_match(one, sym)

sinfl_round(st, in, cap) ==
    CASE st.state = "hdr" -> sinfl_hdr(st, in)
      [] st.state = "dyn" -> sinfl_dyn(st, in)
      [] st.state = "blk" -> sinfl_blk(st, in, cap)
      [] OTHER -> st

\* result: [n |-> bytes written, out |-> the bytes, overread, other]
sinfl_decompress(cap, in) ==
    With(Loop(LAMBDA st : sinfl_round(st, in, cap),
              [state |-> "hdr", pos |-> 0, out |-> <<>>, last |-> 0,
               overread |-> FALSE, other |-> FALSE],
              8 * Len(in) + 2),
         LAMBDA end : [n |-> Len(end.out), out |-> end.out,
                       overread |-> end.overread, other |-> end.other])

sinfl_adler32(in) == sdefl_adler32(in)

\* zsinflate: [n |-> the size or -1, out |-> the inflated bytes, overread, other]
zsinflate(cap, mem) ==
    LET size == Len(mem)
    IN  IF size >= 6
        THEN With(sinfl_decompress(cap, Bytes(mem, 2, size - 2)),    \* in + 2u
                  LAMBDA r :
                     LET eob == Bytes(mem, size - 4, 4)
                         a   == sinfl_adler32(r.out)
                         h   == eob      \* eob[0] << 24 | eob[1] << 16 | eob[2] << 8 | eob[3]
                     IN  [n |-> IF a = h THEN r.n ELSE -1, out |-> r.out,
                          overread |-> r.overread, other |-> r.other])
        ELSE [n |-> -1, out |-> <<>>, overread |-> FALSE, other |-> FALSE]

----------------------------------------------------------------------------
(* The sequences and blocks of sdefl_compr.  What the encoder stores and   *)
(* when it flushes depends on the matches that sdefl_fnd finds, so the     *)
(* loop is followed on inputs whose matches are known from their make:     *)
(*   run:   in_len bytes, all equal;                                       *)
(*   units: in_len bytes of units of UnitSize bytes, unit u being the byte *)
(*          (u / UnitWords) % 256 and a word of 4 bytes that is the same   *)
(*          in the units u, u + UnitWords, u + 2 UnitWords, ... (the words *)
(*          have no 4 bytes in a row in common): the 4 bytes at a word are *)
(*          those of the word UnitWords units before, the bytes after the  *)
(*          two words differ, and the 4 bytes at any other place occur     *)
(*          nowhere in the SDEFL_WIN_SIZ bytes before.                     *)
(* The input is a record [kind, in_len].                                   *)

SDEFL_MIN_MATCH == 4
SDEFL_MAX_MATCH == 258
SDEFL_WIN_SIZ == 32768                \* SDEFL_MAX_OFF, 1 << 15
SDEFL_NIL == -1
SDEFL_SEQ_SIZ == (SDEFL_BLK_MAX + SDEFL_MIN_MATCH) \div SDEFL_MIN_MATCH
UnitSize == 1 + SDEFL_MIN_MATCH      \* one byte and a word a match can cover
UnitWords == 32

\* static const unsigned char pref[] = { 8,10,14,24,30,48,65,96,130 }
pref(lvl) == <<8, 10, 14, 24, 30, 48, 65, 96, 130>>[lvl + 1]

\* sdefl_fnd(&m, s, chain_len, max_match, in, p): m.len, 0 when no match is
\* found.  reg is the last position put into the hash table (every
\* position before it that the loop stepped on is in the table too).  The
\* first position of the chain with the 4 bytes of p is reg in a run, and
\* the match runs on over equal bytes up to max_match; it is the word
\* UnitWords units back in units, and the match ends after the 4 bytes.
sdefl_fnd(in, reg, max_match, p) ==
    LET limit == IF p - SDEFL_WIN_SIZ < SDEFL_NIL THEN SDEFL_NIL ELSE p - SDEFL_WIN_SIZ
        i     == IF in.kind = "run" THEN reg
                 ELSE IF p % UnitSize = 1 /\ p - UnitSize * UnitWords <= reg
                      THEN p - UnitSize * UnitWords
                      ELSE SDEFL_NIL
    IN  IF i > limit
        THEN IF in.kind = "run" THEN max_match
             ELSE IF SDEFL_MIN_MATCH < max_match THEN SDEFL_MIN_MATCH ELSE max_match
        ELSE 0

\* sdefl_seq(s, off, len) on the state of the loop: the assertion, then
\* s->seq_cnt++
sdefl_seq(st) ==
    IF st.seq_cnt + 2 < SDEFL_SEQ_SIZ
    THEN [st EXCEPT !.seq_cnt = st.seq_cnt + 1]
    ELSE [st EXCEPT !.asserted = TRUE, !.done = TRUE]

\* if (litlen) { sdefl_seq(s, i - litlen, litlen); litlen = 0; }
sdefl_seq_literals(st) ==
    IF st.litlen # 0 THEN [sdefl_seq(st) EXCEPT !.litlen = 0] ELSE st

\* the body of while (i < blk_end)
sdefl_compr_step(st, in, lvl) ==
    LET in_len     == in.in_len
        i          == st.i
        max_match  == IF in_len - i > SDEFL_MAX_MATCH THEN SDEFL_MAX_MATCH ELSE in_len - i
        nice_match == IF pref(lvl) < max_match THEN pref(lvl) ELSE max_match
        m_first    == IF max_match > SDEFL_MIN_MATCH THEN sdefl_fnd(in, st.reg, max_match, i) ELSE 0
        m_len      == IF lvl >= 5 /\ m_first >= SDEFL_MIN_MATCH /\ m_first < nice_match
                      THEN IF sdefl_fnd(in, st.reg, m_first + 1, i + 1) > m_first THEN 0 ELSE m_first
                      ELSE m_first
        matched    == m_len >= SDEFL_MIN_MATCH
        inc        == IF matched /\ lvl < 2 /\ m_len >= nice_match THEN m_len ELSE 1
        run        == IF matched /\ ~(lvl < 2 /\ m_len >= nice_match) THEN m_len ELSE 1
        run_inc    == run * inc
        stored     == IF matched
                      THEN sdefl_seq(sdefl_seq_literals(st))
                      ELSE [st EXCEPT !.litlen = st.litlen + 1]
    IN  IF stored.asserted THEN stored
        ELSE IF in_len - (i + run_inc) > SDEFL_MIN_MATCH
             THEN [stored EXCEPT !.reg = i + (run - 1) * inc, !.i = i + run * inc]
             ELSE [stored EXCEPT !.i = i + run_inc]

\* what follows the while loop: the last literals, sdefl_flush(&q, s,
\* blk_end == in_len, in) and the test of the do loop.  A block is recorded
\* with the input it covers, from..to - 1, its bits BFINAL and BTYPE and the
\* number of its sequences.
sdefl_compr_flush(st, in) ==
    LET lit == sdefl_seq_literals(st)
        blk == [from |-> st.from, to |-> st.i,
                bfinal |-> IF st.blk_end = in.in_len THEN 1 ELSE 0, btype |-> 2,
                seq_cnt |-> lit.seq_cnt]
    IN  IF lit.asserted THEN lit
        ELSE [lit EXCEPT !.blocks = Append(st.blocks, blk),
                         !.seq_cnt = 0,
                         !.from = st.i,
                         !.blk_end = IF st.i + SDEFL_BLK_MAX < in.in_len
                                     THEN st.i + SDEFL_BLK_MAX ELSE in.in_len,
                         !.done = ~(st.i < in.in_len)]

\* one step of sdefl_compr: of the while loop, or of the do loop after it
sdefl_compr_round(st, in, lvl) ==
    IF st.done THEN st
    ELSE IF st.i < st.blk_end THEN sdefl_compr_step(st, in, lvl)
    ELSE sdefl_compr_flush(st, in)

\* sdefl_compr(s, out, in, in_len, lvl): the blocks written, and asserted:
\* the assertion of sdefl_seq failed
sdefl_compr_blocks(in, lvl) ==
    LET end == Until(LAMBDA st : sdefl_compr_round(st, in, lvl),
                     [i |-> 0, litlen |-> 0, seq_cnt |-> 0, reg |-> SDEFL_NIL, from |-> 0,
                      blk_end |-> IF SDEFL_BLK_MAX < in.in_len THEN SDEFL_BLK_MAX ELSE in.in_len,
                      blocks |-> <<>>, asserted |-> FALSE, done |-> FALSE],
                     in.in_len + (in.in_len \div SDEFL_BLK_MAX) + 2)
    IN  [blocks |-> end.blocks, asserted |-> end.asserted]

----------------------------------------------------------------------------
(* sinfl_decompress bit by bit: the bit buffer of struct sinfl, the states *)
(* hdr, stored, fixed and blk.  The code lengths of a dynamic block are    *)
(* not followed here: the loop stops at one, with other set.               *)
(*                                                                         *)
(* The memory the decoder reads is m = [mem, around]: mem is the buffer    *)
(* the caller handed over, offsets count from its first byte, and around   *)
(* is the byte the build finds at the places outside it.                   *)

MemAt(m, i) == IF 0 <= i /\ i < Len(m.mem) THEN At(m.mem, i) ELSE m.around

\* static const short dbase[30+2], unsigned char dbits[30+2], short
\* lbase[29+2], unsigned char lbits[29+2], indexed from 0
dbase(n) ==
    <<1, 2, 3, 4, 5, 7, 9, 13, 17, 25, 33, 49, 65, 97, 129, 193, 257, 385, 513, 769, 1025,
      1537, 2049, 3073, 4097, 6145, 8193, 12289, 16385, 24577, 0, 0>>[n + 1]
dbits(n) ==
    <<0, 0, 0, 0, 1, 1, 2, 2, 3, 3, 4, 4, 5, 5, 6, 6, 7, 7, 8, 8, 9, 9, 10, 10, 11, 11, 12, 12,
      13, 13, 0, 0>>[n + 1]
lbase(n) ==
    <<3, 4, 5, 6, 7, 8, 9, 10, 11, 13, 15, 17, 19, 23, 27, 31, 35, 43, 51, 59, 67, 83, 99, 115,
      131, 163, 195, 227, 258, 0, 0>>[n + 1]
lbits(n) ==
    <<0, 0, 0, 0, 0, 0, 0, 0, 1, 1, 1, 1, 2, 2, 2, 2, 3, 3, 3, 3, 4, 4, 4, 4, 5, 5, 5, 5,
      0, 0, 0>>[n + 1]

\* struct sinfl s = { 0 }: bitbuf is the sequence of its 64 bits, the
\* least significant first
ZeroBits == [k \in 1..64 |-> 0]

\* sinfl_read64(p): memcpy(&n, p, 8) on a little-endian host
sinfl_read64(m, p) ==
    [k \in 1..64 |-> (MemAt(m, p + ((k - 1) \div 8)) \div 2^((k - 1) % 8)) % 2]

\* sinfl_refill(s): s->bitcnt |= 56 is 56 + (bitcnt & 7) for 0 <= bitcnt <= 63
sinfl_refill(s, m) ==
    LET w == sinfl_read64(m, s.bitptr)
    IN  [bitbuf |-> [k \in 1..64 |-> IF k > s.bitcnt /\ w[k - s.bitcnt] = 1
                                     THEN 1 ELSE s.bitbuf[k]],
         bitptr |-> s.bitptr + ((63 - s.bitcnt) \div 8),
         bitcnt |-> 56 + (s.bitcnt % 8)]

\* assert(cnt >= 0 && cnt <= 56); assert(cnt <= s->bitcnt) of sinfl_peek,
\* assert(cnt <= s->bitcnt) of sinfl_consume
sinfl_asserts(s, cnt) == cnt >= 0 /\ cnt <= 56 /\ cnt <= s.bitcnt

\* the number that the cnt bits of bitbuf from bit from (from 0) make, the
\* first of them the least significant
BitsValue(bitbuf, from, cnt) ==
    LET RECURSIVE sum(_)
        sum(k) == IF k >= cnt THEN 0 ELSE bitbuf[from + k + 1] * 2^k + sum(k + 1)
    IN  sum(0)

\* sinfl_peek(s, cnt): s->bitbuf & ((1ull << cnt) - 1)
sinfl_peek(s, cnt) == BitsValue(s.bitbuf, 0, cnt)

\* sinfl_consume(s, cnt)
sinfl_consume(s, cnt) ==
    [s EXCEPT !.bitbuf = [k \in 1..64 |-> IF k + cnt <= 64 THEN s.bitbuf[k + cnt] ELSE 0],
              !.bitcnt = s.bitcnt - cnt]

\* The state of the decoder: state, the bit buffer s, in (the variable in
\* of sinfl_decompress, an offset), out (the bytes written from o on), last,
\* and the record of what happened: pos (the bits consumed so far),
\* asserted (an assertion failed: the program is aborted), overflow (a byte
\* was written at out + cap or behind it), bad_type (a header with BTYPE 3
\* was read), bad_nlen (a stored block was read whose NLEN is not the
\* complement of its LEN), stored (the stored blocks copied: where the bytes
\* after NLEN are, the bytes copied, where the decoder read its next
\* header), other (the loop met what is not followed here), done (the
\* function has returned or was aborted).
sinfl_return(st) == [st EXCEPT !.done = TRUE]

sinfl_abort(st) == [st EXCEPT !.done = TRUE, !.asserted = TRUE]

\* sinfl__get(s, cnt) on the state: the value is GotBits(st, cnt) before
sinfl__get(st, cnt) ==
    IF ~sinfl_asserts(st.s, cnt) THEN sinfl_abort(st)
    ELSE [st EXCEPT !.s = sinfl_consume(st.s, cnt), !.pos = st.pos + cnt]

GotBits(st, cnt) == sinfl_peek(st.s, cnt)

\* case hdr
sinfl_state_hdr(st, m) ==
    LET filled == [st EXCEPT !.s = sinfl_refill(st.s, m)]
        last   == GotBits(filled, 1)
        one    == sinfl__get(filled, 1)
        type   == GotBits(one, 2)
        two    == [sinfl__get(one, 2) EXCEPT !.last = last]
    IN  IF two.asserted THEN two
        ELSE CASE type = 0 -> [two EXCEPT !.state = "stored"]
               [] type = 1 -> [two EXCEPT !.state = "fixed"]
               [] type = 2 -> [sinfl_return(two) EXCEPT !.other = TRUE]
               [] OTHER    -> [sinfl_return(two) EXCEPT !.bad_type = TRUE]

\* case stored; e is in + size of the call
sinfl_state_stored(st, m, cap, e) ==
    LET filled == [st EXCEPT !.s = sinfl_refill(st.s, m)]
        pad    == sinfl__get(filled, filled.s.bitcnt % 8)
        len    == GotBits(pad, 16)
        got1   == sinfl__get(pad, 16)
        nlen   == GotBits(got1, 16)
        got2   == sinfl__get(got1, 16)
        in     == st.in - 2                                   \* in -= 2
        reset  == [got2 EXCEPT !.s.bitcnt = 0, !.in = in,     \* s.bitcnt = 0
                               !.bad_nlen = st.bad_nlen \/ nlen # 65535 - len]
        copied == [k \in 1..len |-> MemAt(m, in + k - 1)]     \* memcpy(out, in, len)
    IN  IF got2.asserted THEN got2
        ELSE IF len > e - in \/ len = 0 THEN sinfl_return(reset)
        ELSE [reset EXCEPT !.out = st.out \o copied,
                           !.overflow = st.overflow \/ Len(st.out) + len > cap,
                           !.in = in + len,
                           !.stored = Append(st.stored,
                                             [data |-> got2.pos \div 8, len |-> len,
                                              copied |-> copied,
                                              next |-> got2.s.bitptr]),
                           !.state = "hdr"]

\* case fixed: the tables of the fixed codes
sinfl_state_fixed(st) == [st EXCEPT !.state = "blk"]

\* the Huffman code of n bits that begins at bit from of bitbuf: its first
\* bit is the most significant
CodeValue(bitbuf, from, n) ==
    LET RECURSIVE sum(_)
        sum(k) == IF k >= n THEN 0 ELSE bitbuf[from + k + 1] * 2^(n - 1 - k) + sum(k + 1)
    IN  sum(0)

\* sinfl_decode(s, s.lits, 10) with the table that sinfl_build makes of the
\* fixed lengths (8 for 0..143, 9 for 144..255, 7 for 256..279, 8 for
\* 280..287): the entry for the 10 bits peeked is the symbol whose code
\* they begin with.  [sym, len]
fixed_lits(bitbuf) ==
    LET c7 == CodeValue(bitbuf, 0, 7)
        c8 == CodeValue(bitbuf, 0, 8)
        c9 == CodeValue(bitbuf, 0, 9)
    IN  IF c7 <= 23 THEN [sym |-> 256 + c7, len |-> 7]
        ELSE IF c8 >= 48 /\ c8 <= 191 THEN [sym |-> c8 - 48, len |-> 8]
        ELSE IF c8 >= 192 /\ c8 <= 199 THEN [sym |-> 280 + (c8 - 192), len |-> 8]
        ELSE [sym |-> 144 + (c9 - 400), len |-> 9]

\* sinfl_decode(s, s.dsts, 8) with the table of the fixed lengths (5 for
\* each of the 32 symbols)
fixed_dsts(bitbuf) == [sym |-> CodeValue(bitbuf, 0, 5), len |-> 5]

\* sinfl_decode(s, tbl, bit_len) on the state, for a table without
\* sub-tables: sinfl_peek(s, bit_len), then sinfl_consume(s, key & 0x0f)
sinfl_decode(st, key, bit_len) ==
    IF ~sinfl_asserts(st.s, bit_len) THEN sinfl_abort(st)
    ELSE sinfl__get(st, key.len)

\* the bytes a match of len bytes at distance offs appends to out: byte k
\* is the byte offs before it
match_copy(out, offs, len) ==
    [k \in 1..len |-> out[Len(out) - offs + 1 + ((k - 1) % offs)]]

\* what follows a symbol that is no literal
sinfl_blk_rest(st, sym, cap) ==
    IF sym = 256                                              \* end of block
    THEN IF st.last = 1 THEN sinfl_return(st) ELSE [st EXCEPT !.state = "hdr"]
    ELSE IF sym > 285 THEN [sinfl_return(st) EXCEPT !.other = TRUE]
    ELSE LET n      == sym - 257
             len    == GotBits(st, lbits(n)) + lbase(n)
             got1   == sinfl__get(st, lbits(n))
             dkey   == fixed_dsts(got1.s.bitbuf)
             got2   == sinfl_decode(got1, dkey, 8)
             dsym   == dkey.sym
             offs   == GotBits(got2, dbits(dsym)) + dbase(dsym)
             got3   == sinfl__get(got2, dbits(dsym))
         IN  IF got3.asserted THEN got3
             ELSE IF dsym > 29 THEN [sinfl_return(got3) EXCEPT !.other = TRUE]
             ELSE IF offs > Len(st.out) THEN sinfl_return(got3)
             ELSE [got3 EXCEPT !.out = st.out \o match_copy(st.out, offs, len),
                               !.overflow = st.overflow \/ Len(st.out) + len > cap]

\* case blk: one round of its while (1)
sinfl_state_blk(st, m, cap) ==
    LET filled == [st EXCEPT !.s = sinfl_refill(st.s, m)]
        key    == fixed_lits(filled.s.bitbuf)
        one    == sinfl_decode(filled, key, 10)
    IN  IF one.asserted THEN one
        ELSE IF key.sym < 256
        THEN IF Len(st.out) + 1 >= cap THEN sinfl_return(one)
             ELSE LET lit  == [one EXCEPT !.out = Append(st.out, key.sym),
                                          !.overflow = st.overflow \/ Len(st.out) >= cap]
                      key2 == fixed_lits(lit.s.bitbuf)
                      two  == sinfl_decode(lit, key2, 10)
                  IN  IF two.asserted THEN two
                      ELSE IF key2.sym < 256
                      THEN [two EXCEPT !.out = Append(lit.out, key2.sym),
                                       !.overflow = lit.overflow \/ Len(lit.out) >= cap]
                      ELSE sinfl_blk_rest(two, key2.sym, cap)
        ELSE sinfl_blk_rest(one, key.sym, cap)

sinfl_state_round(st, m, cap, e) ==
    CASE st.done             -> st
      [] st.state = "hdr"    -> sinfl_state_hdr(st, m)
      [] st.state = "stored" -> sinfl_state_stored(st, m, cap, e)
      [] st.state = "fixed"  -> sinfl_state_fixed(st)
      [] st.state = "blk"    -> sinfl_state_blk(st, m, cap)
      [] OTHER               -> st

\* a number of rounds that no stream of the model exceeds
MaxRounds(m) == 8 * Len(m.mem) + 8

\* sinfl_decompress(out, cap, in, size), in the offset of in in the memory:
\* the state at the return, n the value returned
sinfl_decompress_bits(cap, m, in, size) ==
    LET st0 == [state |-> "hdr", s |-> [bitbuf |-> ZeroBits, bitptr |-> in, bitcnt |-> 0],
                in |-> in, out |-> <<>>, last |-> 0, pos |-> 8 * in,
                asserted |-> FALSE, overflow |-> FALSE, bad_type |-> FALSE,
                bad_nlen |-> FALSE, stored |-> <<>>, other |-> FALSE, done |-> FALSE]
    IN  Until(LAMBDA st : sinfl_state_round(st, m, cap, in + size), st0, MaxRounds(m))

\* sinflate(out, cap, in, size): [n, and the record of the decoder]
sinflate(cap, m) ==
    With(sinfl_decompress_bits(cap, m, 0, Len(m.mem)),
         LAMBDA end : [n |-> Len(end.out), end |-> end])

\* zsinflate(out, cap, mem, size), bit by bit
zsinflate_bits(cap, m) ==
    LET size == Len(m.mem)
    IN  IF size >= 6
        THEN With(sinfl_decompress_bits(cap, m, 2, size),                 \* in + 2u
                  LAMBDA end :
                     LET a == sinfl_adler32(end.out)
                         h == Bytes(m.mem, size - 4, 4)                   \* eob
                     IN  [n |-> IF a = h THEN Len(end.out) ELSE -1, end |-> end])
        ELSE [n |-> -1, end |-> [out |-> <<>>, asserted |-> FALSE, overflow |-> FALSE,
                                 bad_type |-> FALSE, bad_nlen |-> FALSE, stored |-> <<>>,
                                 other |-> FALSE, done |-> TRUE]]

----------------------------------------------------------------------------
(* Scanline filters *)

Abs(n) == IF n < 0 THEN -n ELSE n

\* (unsigned char)out
UChar(out) == out % 256

\* (signed char)out
SChar(out) == IF out % 256 >= 128 THEN (out % 256) - 256 ELSE out % 256

\* a predictor that keeps p = a + b - c in 8 bits
rpng_paeth_predictor_8bit(a, b, c) ==
    LET p  == (a + b - c) % 256
        pa == Abs(p - a)
        pb == Abs(p - b)
        pc == Abs(p - c)
    IN  IF (pa <= pb) /\ (pa <= pc) THEN a % 256
        ELSE IF pb <= pc THEN b % 256
        ELSE c % 256

rpng_paeth_predictor(a, b, c) ==
    LET p  == a + b - c
        pa == Abs(p - a)
        pb == Abs(p - b)
        pc == Abs(p - c)
    IN  IF (pa <= pb) /\ (pa <= pc) THEN UChar(a)
        ELSE IF pb <= pc THEN UChar(b)
        ELSE UChar(c)

\* the neighbours of byte p of scanline y in a buffer of unfiltered rows:
\* a = left pixel byte, b = above pixel byte, c = left pixel byte from b
NeighbourA(data, scanline_size, pixel_size, y, p) ==
    IF p >= pixel_size THEN At(data, scanline_size * y + p - pixel_size) ELSE 0
NeighbourB(data, scanline_size, pixel_size, y, p) ==
    IF y > 0 THEN At(data, scanline_size * (y - 1) + p) ELSE 0
NeighbourC(data, scanline_size, pixel_size, y, p) ==
    IF y > 0
    THEN (IF p >= pixel_size THEN At(data, scanline_size * (y - 1) + p - pixel_size) ELSE 0)
    ELSE 0

\* the switch of the encoder: out for one filter type
filter_out(filter, x, a, b, c) ==
    CASE filter = 0 -> x
      [] filter = 1 -> x - a
      [] filter = 2 -> x - b
      [] filter = 3 -> x - ((a + b) \div 2)
      [] filter = 4 -> x - rpng_paeth_predictor(a, b, c)

\* the first loop over p: byte p of scanline y added to the five sums.
\* The loop state is [sum_value, p].
filter_sum(st, data, scanline_size, pixel_size, y) ==
    IF st.p >= scanline_size THEN st
    ELSE LET x == At(data, scanline_size * y + st.p)
             a == NeighbourA(data, scanline_size, pixel_size, y, st.p)
             b == NeighbourB(data, scanline_size, pixel_size, y, st.p)
             c == NeighbourC(data, scanline_size, pixel_size, y, st.p)
             add(filter) == st.sum_value[filter + 1] + Abs(SChar(filter_out(filter, x, a, b, c)))
         IN  [sum_value |-> <<add(0), add(1), add(2), add(3), add(4)>>, p |-> st.p + 1]

\* the loop over filter = 1 .. 4; the loop state is [filter, best_filter, best_value]
filter_best(st, sum_value) ==
    IF st.filter >= 5 THEN st
    ELSE IF sum_value[st.filter + 1] < st.best_value
         THEN [filter |-> st.filter + 1, best_filter |-> st.filter,
               best_value |-> sum_value[st.filter + 1]]
         ELSE [st EXCEPT !.filter = st.filter + 1]

\* a second loop that stores the bytes of scanline y as they are
filter_apply_none(best_filter, data, scanline_size, pixel_size, y) ==
    [q \in 1..scanline_size |-> At(data, scanline_size * y + q - 1)]

\* the second loop over p: scanline y filtered with best_filter
filter_apply(best_filter, data, scanline_size, pixel_size, y) ==
    [q \in 1..scanline_size |->
        LET p == q - 1
            x == At(data, scanline_size * y + p)
            a == NeighbourA(data, scanline_size, pixel_size, y, p)
            b == NeighbourB(data, scanline_size, pixel_size, y, p)
            c == NeighbourC(data, scanline_size, pixel_size, y, p)
        IN  UChar(filter_out(best_filter, x, a, b, c))]

\* one round of the loop over y.  The loop state is [data_filtered,
\* sum_value, y]; sum_value is declared before the loop and is not set back
\* to zero for a new scanline.
filter_scanline(st, data, scanline_size, pixel_size, height) ==
    IF st.y >= height THEN st
    ELSE With(Loop(LAMBDA s : filter_sum(s, data, scanline_size, pixel_size, st.y),
                   [sum_value |-> st.sum_value, p |-> 0], scanline_size).sum_value,
              LAMBDA sums :
         With(Loop(LAMBDA s : filter_best(s, sums),
                   [filter |-> 1, best_filter |-> 0, best_value |-> sums[1]], 4).best_filter,
              LAMBDA best_filter :
                 [data_filtered |-> st.data_filtered \o <<best_filter>>
                      \o filter_apply(best_filter, data, scanline_size, pixel_size, st.y),
                  sum_value |-> sums, y |-> st.y + 1]))

\* the switch of the decoder with the cases Sub and Up exchanged
unfilter_out_exchanged(current_filter, out, x, a, b, c) ==
    CASE current_filter = 0 -> x
      [] current_filter = 1 -> x + b
      [] current_filter = 2 -> x + a
      [] current_filter = 3 -> x + ((a + b) \div 2)
      [] current_filter = 4 -> x + rpng_paeth_predictor(a, b, c)
      [] OTHER -> out

\* the switch of the decoder
unfilter_out(current_filter, out, x, a, b, c) ==
    CASE current_filter = 0 -> x
      [] current_filter = 1 -> x + a
      [] current_filter = 2 -> x + b
      [] current_filter = 3 -> x + ((a + b) \div 2)
      [] current_filter = 4 -> x + rpng_paeth_predictor(a, b, c)
      [] OTHER -> out          \* default: out keeps its last value

\* data_filtered is the inflate buffer, zero after the inflated bytes
FilteredAt(data_filtered, i) == IF i < Len(data_filtered) THEN At(data_filtered, i) ELSE 0

\* one round of the decoder's loop over p.  The loop state is [data, out, y,
\* p]: data is data_unfiltered so far, y and p the scanline and the byte.
unfilter_byte(st, data_filtered, scanline_size, pixel_size) ==
    IF st.p >= scanline_size THEN st
    ELSE LET current_filter == FilteredAt(data_filtered, (1 + scanline_size) * st.y)
             x == FilteredAt(data_filtered, (1 + scanline_size) * st.y + 1 + st.p)
             a == NeighbourA(st.data, scanline_size, pixel_size, st.y, st.p)
             b == NeighbourB(st.data, scanline_size, pixel_size, st.y, st.p)
             c == NeighbourC(st.data, scanline_size, pixel_size, st.y, st.p)
             out == unfilter_out(current_filter, st.out, x, a, b, c)
         IN  [data |-> Append(st.data, UChar(out)), out |-> out, y |-> st.y, p |-> st.p + 1]

\* one round of the decoder's loop over y
unfilter_scanline(st, data_filtered, scanline_size, pixel_size, height) ==
    IF st.y >= height THEN st
    ELSE LET row == Loop(LAMBDA s : unfilter_byte(s, data_filtered, scanline_size, pixel_size),
                         [st EXCEPT !.p = 0], scanline_size)
         IN  [row EXCEPT !.y = st.y + 1]

----------------------------------------------------------------------------
(* Chunks *)

\* the null pointer, where a buffer is expected
NULL == <<-1>>

\* the chunk that starts at C offset ptr of buf: its data size and type
chunk_size_at(buf, ptr) == ToInt(swap_endian(Load32(Bytes(buf, ptr, 4))))
chunk_type_at(buf, ptr) == Bytes(buf, ptr + 4, 4)

\* the 8 header bytes, the 12 bytes of an empty chunk and the whole chunk
\* at ptr lie inside buf
header_inside(buf, ptr) == ptr + 8 <= Len(buf)
trailer_inside(buf, ptr) == ptr + 12 <= Len(buf)
chunk_inside(buf, ptr) ==
    /\ header_inside(buf, ptr)
    /\ At(buf, ptr) < 128
    /\ ptr + 12 + chunk_size_at(buf, ptr) <= Len(buf)

\* the whole chunk at ptr, Length + FOURCC + chunk_size + CRC32, and the
\* offset of the chunk after it
whole_chunk(buf, ptr) == Bytes(buf, ptr, 4 + 4 + chunk_size_at(buf, ptr) + 4)
next_chunk(buf, ptr) == ptr + (4 + 4 + chunk_size_at(buf, ptr) + 4)

\* (buffer_ptr != NULL) && (memcmp(buffer_ptr, png_signature, 8) == 0)
valid_signature(buf) == buf # NULL /\ Len(buf) >= 8 /\ Bytes(buf, 0, 8) = png_signature

\* the 8 bytes that memcmp compares with png_signature lie inside buf
signature_inside(buf) == buf = NULL \/ Len(buf) >= 8

\* a number of rounds no walk over the chunks of buf exceeds
MaxWalk(buf) == (Len(buf) \div 12) + 1

----------------------------------------------------------------------------
(* rpng_save_image_to_memory *)

color_type_of(color_channels) ==
    CASE color_channels = 1 -> 0        \* Grayscale
      [] color_channels = 2 -> 4        \* Gray + Alpha
      [] color_channels = 3 -> 2        \* RGB
      [] color_channels = 4 -> 6        \* RGBA
      [] OTHER -> -1

\* rpng_chunk_IHDR as the 13 bytes memcpy takes from the struct
image_info(width, height, bit_depth, color_type) ==
    Store32(swap_endian(U32(width))) \o Store32(swap_endian(U32(height)))
        \o <<UChar(bit_depth), UChar(color_type), 0, 0, 0>>

\* the buffer handed to zsdeflate
save_data_filtered(data, width, height, color_channels, bit_depth) ==
    LET pixel_size    == color_channels * (bit_depth \div 8)
        scanline_size == width * pixel_size
    IN  Loop(LAMBDA st : filter_scanline(st, data, scanline_size, pixel_size, height),
             [data_filtered |-> <<>>, sum_value |-> <<0, 0, 0, 0, 0>>, y |-> 0],
             height).data_filtered

\* an IEND chunk whose CRC field is left zero
chunk_IEND_no_crc == <<0, 0, 0, 0>> \o IEND \o <<0, 0, 0, 0>>

chunk_IEND == <<0, 0, 0, 0>> \o IEND \o <<\hAE, \h42, \h60, \h82>>

\* result: [output_buffer, output_size]: the returned pointer and what the
\* call left in *output_size.  On the two early returns *output_size is not
\* written: the model shows the caller's value as -1.
rpng_save_image_to_memory(data, width, height, color_channels, bit_depth) ==
    IF (bit_depth # 8) /\ (bit_depth # 16)
    THEN [output_buffer |-> NULL, output_size |-> -1]
    ELSE IF color_type_of(color_channels) = -1
    THEN [output_buffer |-> NULL, output_size |-> -1]
    ELSE
    With(zsdeflate(save_data_filtered(data, width, height, color_channels, bit_depth)),
         LAMBDA comp_data :
            LET comp_data_size == Len(comp_data)
                ihdr_data == image_info(width, height, bit_depth, color_type_of(color_channels))
                ihdr == Store32(swap_endian(U32(13))) \o IHDR \o ihdr_data
                            \o Store32(swap_endian(compute_crc32(IHDR \o ihdr_data)))
                idat == Store32(swap_endian(U32(comp_data_size))) \o IDAT \o comp_data
                            \o Store32(swap_endian(compute_crc32(IDAT \o comp_data)))
            IN  IF comp_data_size > 0
                THEN [output_buffer |-> png_signature \o ihdr \o idat \o chunk_IEND,
                      output_size |-> (8 + 12 + 13) + (comp_data_size + 12) + 12]
                ELSE [output_buffer |-> NULL, output_size |-> 0])

----------------------------------------------------------------------------
(* rpng_chunk_read_all_from_memory *)

\* an rpng_chunk read at C offset ptr
read_chunk(buf, ptr) ==
    LET chunk_size == chunk_size_at(buf, ptr)
    IN  [length |-> chunk_size,
         type   |-> chunk_type_at(buf, ptr),
         data   |-> Bytes(buf, ptr + 8, chunk_size),
         crc    |-> swap_endian(Load32(Bytes(buf, ptr + 8 + chunk_size, 4)))]

\* One round of the while loop, and after it the read of the final chunk.
\* The loop state is [ptr, chunks, done, overrun]; overrun: the walk left
\* the buffer (the C code reads on, outside it).
read_all_round(st, buf) ==
    IF st.done THEN st
    ELSE IF ~chunk_inside(buf, st.ptr) THEN [st EXCEPT !.done = TRUE, !.overrun = TRUE]
    ELSE LET read == Append(st.chunks, read_chunk(buf, st.ptr))
         IN  IF chunk_type_at(buf, st.ptr) # IEND
                  /\ Len(st.chunks) < RPNG_MAX_CHUNKS_COUNT - 2     \* no break so far
             THEN [st EXCEPT !.ptr = next_chunk(buf, st.ptr), !.chunks = read]
             ELSE \* Read final IEND chunk: the chunk at the pointer, whatever it is
                  [st EXCEPT !.chunks = read, !.done = TRUE]

\* result: [chunks, count, overrun]
rpng_chunk_read_all_from_memory(buf) ==
    IF valid_signature(buf)
    THEN With(Loop(LAMBDA st : read_all_round(st, buf),
                   [ptr |-> 8, chunks |-> <<>>, done |-> FALSE, overrun |-> FALSE],
                   MaxWalk(buf)),
              LAMBDA end : [chunks |-> end.chunks, count |-> Len(end.chunks),
                            overrun |-> end.overrun])
    ELSE [chunks |-> NULL, count |-> 0, overrun |-> ~signature_inside(buf)]

----------------------------------------------------------------------------
(* rpng_load_image_from_memory *)

color_channels_of(color_type) ==
    CASE color_type = 0 -> 1            \* 0-Grayscale
      [] color_type = 4 -> 2            \* 4-GrayAlpha
      [] color_type = 2 -> 3            \* 2-RGB
      [] color_type = 6 -> 4            \* 6-RGBA
      [] color_type = 3 -> 0            \* 3-Indexed (Not supported)
      [] OTHER -> 0

\* a * b leaves the range of a C int (a, b >= 0)
MulOverflows(a, b) == a > 0 /\ b > 0 /\ a > 2147483647 \div b

\* One IDAT chunk of the loop: CRC check, inflate of this chunk's data alone,
\* reverse filters.  Result: [stop, piece, piece_size, undefined, failed,
\* beyond].
\* undefined: the inflate read past the chunk data or met a block the model
\* does not decode, or the reverse filter wrote past the data_decomp_size
\* bytes of data_unfiltered.
\* failed: the loop was left with the inflate buffer data_piece[k] allocated.
\* beyond: the reverse filter read data_filtered at data_decomp_size or
\* behind it; its last read is at (1 + scanline_size)*height - 1.
load_piece(chunk, width, height, color_channels, bit_depth) ==
    LET stopped(undefined, failed, beyond) ==
            [stop |-> TRUE, piece |-> <<>>, piece_size |-> 0, undefined |-> undefined,
             failed |-> failed, beyond |-> beyond]
        nothing(undefined) == stopped(undefined, FALSE, FALSE)
        pixel_size    == color_channels * (bit_depth \div 8)
        scanline_size == width * pixel_size
    IN  IF compute_crc32(chunk.type \o chunk.data) = chunk.crc
        THEN With(zsinflate(RPNG_MAX_OUTPUT_SIZE, chunk.data),
                  LAMBDA z :
                     IF z.overread \/ z.other THEN nothing(TRUE)
                     ELSE IF z.n <= 0 THEN stopped(FALSE, TRUE, FALSE)   \* data_decomp_size
                     ELSE IF MulOverflows(width, pixel_size)
                             \/ MulOverflows(height, scanline_size + 1)
                             \/ height * scanline_size > z.n
                     THEN stopped(TRUE, FALSE, height > 0)
                     ELSE With(Loop(LAMBDA st : unfilter_scanline(st, z.out, scanline_size,
                                                                  pixel_size, height),
                                    [data |-> <<>>, out |-> 0, y |-> 0, p |-> 0], height).data,
                               LAMBDA unfiltered :
                                  [stop |-> FALSE,
                                   piece |-> unfiltered \o Zeros(z.n - Len(unfiltered)),
                                   piece_size |-> z.n - height,
                                   undefined |-> FALSE, failed |-> FALSE,
                                   beyond |-> height * (1 + scanline_size) > z.n]))
        ELSE \* CRC not valid
             nothing(FALSE)

\* One round of the loop over chunks[1 .. count-1].  The loop state is
\* [i, pieces, done, undefined, failed, beyond]; pieces is
\* data_piece[0 .. dataChunkCounter-1], failed and beyond are those of the
\* pieces so far.
load_round(st, chunks, count, width, height, color_channels, bit_depth) ==
    IF st.done \/ st.i >= count THEN st
    ELSE With(IF chunks[st.i + 1].type = IDAT
              THEN load_piece(chunks[st.i + 1], width, height, color_channels, bit_depth)
              ELSE [stop |-> FALSE, failed |-> FALSE, beyond |-> FALSE],
              LAMBDA r :
                 IF r.stop
                 THEN [st EXCEPT !.done = TRUE, !.undefined = r.undefined,       \* break
                                 !.failed = r.failed, !.beyond = st.beyond \/ r.beyond]
                 ELSE [i |-> st.i + 1,
                       pieces |-> IF chunks[st.i + 1].type = IDAT
                                  THEN Append(st.pieces, r) ELSE st.pieces,
                       done |-> st.i > RPNG_MAX_CHUNKS_COUNT - 1, undefined |-> FALSE,
                       failed |-> FALSE, beyond |-> st.beyond \/ r.beyond])

\* Concatenate all data chunks: memcpy of piece i into data, data advancing.
\* The loop state is [data, off, i, undefined]: data is the allocation, off
\* the advance of the pointer; undefined: a copy leaves the allocation.
load_concat(st, pieces) ==
    IF st.undefined \/ st.i >= Len(pieces) THEN st
    ELSE LET piece == pieces[st.i + 1]
             n == piece.piece_size
         IN  IF n < 0 \/ st.off + n > Len(st.data) THEN [st EXCEPT !.undefined = TRUE]
             ELSE [data |-> SubSeq(st.data, 1, st.off) \o SubSeq(piece.piece, 1, n)
                                \o SubSeq(st.data, st.off + n + 1, Len(st.data)),
                   off |-> st.off + n, i |-> st.i + 1, undefined |-> FALSE]

\* Result: [data, width, height, color_channels, bit_depth, undefined,
\* unfreed, beyond].
\* data is what the returned pointer points at: NULL, or the bytes from the
\* pointer to the end of its allocation.  The four numbers are -1 when the
\* call did not write them.  undefined: the call read or wrote outside its
\* buffers, and nothing is known of its result.  unfreed: the allocations
\* of the call that are neither freed nor returned when it returns.
\* beyond: the reverse filter read an inflate buffer at the inflated size or
\* behind it.
LoadResult(data, width, height, color_channels, bit_depth, undefined) ==
    [data |-> data, width |-> width, height |-> height,
     color_channels |-> color_channels, bit_depth |-> bit_depth, undefined |-> undefined,
     unfreed |-> {}, beyond |-> FALSE]

\* the allocations of rpng_chunk_read_all_from_memory: the array, and the
\* data of each chunk that has any
chunk_allocations(chunks, count) ==
    {<<"chunks">>}
      \cup {<<"chunks.data", i>> : i \in {j \in 0..(count - 1) : chunks[j + 1].length > 0}}

\* The call from the chunks loop on: chunks[0] has given the four numbers.
load_image_data(chunks, count, width, height, color_channels, bit_depth) ==
    With(IF color_channels # 0
         THEN Loop(LAMBDA st : load_round(st, chunks, count, width, height,
                                          color_channels, bit_depth),
                   [i |-> 1, pieces |-> <<>>, done |-> FALSE, undefined |-> FALSE,
                    failed |-> FALSE, beyond |-> FALSE], count)
         ELSE [pieces |-> <<>>, undefined |-> FALSE, failed |-> FALSE, beyond |-> FALSE],
         LAMBDA loop :
            LET dataChunkCounter == Len(loop.pieces)
                total == width * height * color_channels * (bit_depth \div 8)
                \* the inflate buffer of the piece the loop was left at
                kept(r) == [r EXCEPT !.beyond = loop.beyond,
                                     !.unfreed = IF loop.failed
                                                 THEN {<<"data_piece", dataChunkCounter>>}
                                                 ELSE {}]
            IN  IF (color_channels = 1) /\ (bit_depth # 8) /\ (bit_depth # 16)
                THEN [LoadResult(NULL, width, height, color_channels, bit_depth, FALSE)
                         EXCEPT !.unfreed = chunk_allocations(chunks, count)]  \* return data
                ELSE kept(
                     IF loop.undefined
                THEN LoadResult(NULL, width, height, color_channels, bit_depth, TRUE)
                ELSE IF dataChunkCounter = 1
                THEN LoadResult(loop.pieces[1].piece, width, height, color_channels,
                                bit_depth, FALSE)
                ELSE IF MulOverflows(width, height)
                        \/ MulOverflows(width * height, color_channels * (bit_depth \div 8))
                THEN LoadResult(NULL, width, height, color_channels, bit_depth, TRUE)
                ELSE With(Loop(LAMBDA st : load_concat(st, loop.pieces),
                               [data |-> Zeros(total), off |-> 0, i |-> 0,
                                undefined |-> FALSE],
                               dataChunkCounter),
                          LAMBDA cat :
                             IF cat.undefined
                             THEN LoadResult(NULL, width, height, color_channels,
                                             bit_depth, TRUE)
                             ELSE LoadResult(SubSeq(cat.data, cat.off + 1, total),
                                             width, height, color_channels, bit_depth, FALSE))))

\* IHDRData is chunks[0].data
load_image_info(chunks, count, IHDRData) ==
    load_image_data(chunks, count,
                    ToInt(swap_endian(Load32(Bytes(IHDRData, 0, 4)))),   \* width
                    ToInt(swap_endian(Load32(Bytes(IHDRData, 4, 4)))),   \* height
                    color_channels_of(At(IHDRData, 9)),
                    At(IHDRData, 8))                                     \* bit_depth

rpng_load_image_from_memory(buf) ==
    With(rpng_chunk_read_all_from_memory(buf),
         LAMBDA all :
            IF all.count = 0 THEN LoadResult(NULL, -1, -1, -1, -1, FALSE)
            ELSE IF all.overrun \/ Len(all.chunks[1].data) < 13
            THEN LoadResult(NULL, -1, -1, -1, -1, TRUE)   \* reads outside its buffers
            ELSE IF At(all.chunks[1].data, 0) >= 128 \/ At(all.chunks[1].data, 4) >= 128
            THEN LoadResult(NULL, -1, -1, -1, -1, TRUE)   \* a negative int: not modelled
            ELSE load_image_info(all.chunks, all.count, all.chunks[1].data))

----------------------------------------------------------------------------
(* The chunk engine.  Every function walks the chunks from offset 8 until  *)
(* it meets a chunk of type IEND.  The state of a walk is a record with    *)
(* ptr (buffer_ptr as an offset), done (the loop is left and the function  *)
(* has finished) and overrun (the walk left the buffer: the C code reads   *)
(* on, outside it), and what the function accumulates.                     *)

\* result of an editing function: the returned pointer, *output_size
EditResult(st) ==
    [output_buffer |-> st.out, output_size |-> Len(st.out), overrun |-> st.overrun]
NoResult == [output_buffer |-> NULL, output_size |-> 0, overrun |-> FALSE]

\* the common frame of a round: Body(st) is the body of the while loop,
\* Last(st) what follows the loop, both without the move of the pointer
Walk(st, buf, Body(_), Last(_)) ==
    IF st.done THEN st
    ELSE IF ~header_inside(buf, st.ptr) THEN [st EXCEPT !.done = TRUE, !.overrun = TRUE]
    ELSE IF chunk_type_at(buf, st.ptr) # IEND
    THEN IF chunk_inside(buf, st.ptr)
         THEN [Body(st) EXCEPT !.ptr = next_chunk(buf, st.ptr)]
         ELSE [st EXCEPT !.done = TRUE, !.overrun = TRUE]
    ELSE IF trailer_inside(buf, st.ptr)
         THEN [Last(st) EXCEPT !.done = TRUE]
         ELSE [st EXCEPT !.done = TRUE, !.overrun = TRUE]

\* the frame of a round of the functions that read no more of the IEND
\* chunk than its type
Scan(st, buf, Body(_), Last(_)) ==
    IF st.done THEN st
    ELSE IF ~header_inside(buf, st.ptr) THEN [st EXCEPT !.done = TRUE, !.overrun = TRUE]
    ELSE IF chunk_type_at(buf, st.ptr) # IEND
    THEN IF chunk_inside(buf, st.ptr)
         THEN [Body(st) EXCEPT !.ptr = next_chunk(buf, st.ptr)]
         ELSE [st EXCEPT !.done = TRUE, !.overrun = TRUE]
    ELSE [Last(st) EXCEPT !.done = TRUE]

\* Write IEND chunk: memcpy(output_buffer + output_buffer_size, buffer_ptr, 4 + 4 + 4)
write_IEND(st, buf) == [st EXCEPT !.out = st.out \o Bytes(buf, st.ptr, 4 + 4 + 4)]

\* the copy of the chunk at the pointer into the output buffer
copy_chunk(st, buf) == [st EXCEPT !.out = st.out \o whole_chunk(buf, st.ptr)]

\* rpng_chunk_count_from_memory: [count, overrun]
count_round(st, buf) ==
    Scan(st, buf, LAMBDA s : [s EXCEPT !.count = s.count + 1],
                  LAMBDA s : [s EXCEPT !.count = s.count + 1])       \* IEND chunk!

rpng_chunk_count_from_memory(buf) ==
    IF valid_signature(buf)
    THEN LET end == Loop(LAMBDA st : count_round(st, buf),
                         [ptr |-> 8, count |-> 0, done |-> FALSE, overrun |-> FALSE],
                         MaxWalk(buf))
         IN  [count |-> end.count, overrun |-> end.overrun]
    ELSE [count |-> 0, overrun |-> ~signature_inside(buf)]

\* rpng_chunk chunk = { 0 }
EmptyChunk == [length |-> 0, type |-> <<0, 0, 0, 0>>, data |-> NULL, crc |-> <<0, 0, 0, 0>>]

\* rpng_chunk_read_from_memory: one round of the while loop; the loop state
\* is [ptr, chunk, done, overrun]
read_round(st, buf, chunk_type) ==
    Scan(st, buf,
         LAMBDA s : IF chunk_type_at(buf, s.ptr) = chunk_type
                    THEN [s EXCEPT !.chunk = read_chunk(buf, s.ptr), !.done = TRUE]   \* break
                    ELSE s,
         LAMBDA s : s)

\* result: [chunk, overrun]
rpng_chunk_read_from_memory(buf, chunk_type) ==
    IF valid_signature(buf)
    THEN With(Loop(LAMBDA st : read_round(st, buf, chunk_type),
                   [ptr |-> 8, chunk |-> EmptyChunk, done |-> FALSE, overrun |-> FALSE],
                   MaxWalk(buf)),
              LAMBDA end : [chunk |-> end.chunk, overrun |-> end.overrun])
    ELSE [chunk |-> EmptyChunk, overrun |-> ~signature_inside(buf)]

\* a remove that leaves out the first chunk of the type only: a chunk is
\* copied when one was left out before it
remove_round_first(st, buf, chunk_type) ==
    Walk(st, buf,
         LAMBDA s : IF chunk_type_at(buf, s.ptr) # chunk_type \/ Len(s.out) # s.ptr
                    THEN copy_chunk(s, buf) ELSE s,
         LAMBDA s : write_IEND(s, buf))

\* rpng_chunk_remove_from_memory
remove_round(st, buf, chunk_type) ==
    Walk(st, buf,
         LAMBDA s : IF chunk_type_at(buf, s.ptr) # chunk_type THEN copy_chunk(s, buf) ELSE s,
         LAMBDA s : write_IEND(s, buf))

rpng_chunk_remove_from_memory(buf, chunk_type) ==
    IF valid_signature(buf)
    THEN EditResult(Loop(LAMBDA st : remove_round(st, buf, chunk_type),
                         [ptr |-> 8, out |-> png_signature, done |-> FALSE, overrun |-> FALSE],
                         MaxWalk(buf)))
    ELSE [NoResult EXCEPT !.overrun = ~signature_inside(buf)]

\* a removal that keeps tRNS chunks with or without a palette
remove_ancillary_round_any_trns(st, buf) ==
    Walk(st, buf,
         LAMBDA s :
            LET type == chunk_type_at(buf, s.ptr)
            IN  IF type = IHDR \/ type = PLTE \/ type = IDAT \/ type = tRNS
                THEN copy_chunk(s, buf)
                ELSE s,
         LAMBDA s : write_IEND(s, buf))

\* rpng_chunk_remove_ancillary_from_memory
remove_ancillary_round(st, buf) ==
    Walk(st, buf,
         LAMBDA s :
            LET type == chunk_type_at(buf, s.ptr)
                preserve == s.preserve_palette_transparency \/ type = PLTE
                kept == [s EXCEPT !.preserve_palette_transparency = preserve]
            IN  IF type = IHDR \/ type = PLTE \/ type = IDAT \/ (preserve /\ type = tRNS)
                THEN copy_chunk(kept, buf)
                ELSE kept,
         LAMBDA s : write_IEND(s, buf))

rpng_chunk_remove_ancillary_from_memory(buf) ==
    IF valid_signature(buf)
    THEN EditResult(Loop(LAMBDA st : remove_ancillary_round(st, buf),
                         [ptr |-> 8, out |-> png_signature, done |-> FALSE, overrun |-> FALSE,
                          preserve_palette_transparency |-> FALSE],
                         MaxWalk(buf)))
    ELSE [NoResult EXCEPT !.overrun = ~signature_inside(buf)]

\* a chunk written with its CRC in the byte order of the host
written_chunk_host_order(length, type, data) ==
    Store32(swap_endian(U32(length))) \o type \o data \o Store32(compute_crc32(type \o data))

\* a chunk as it is written: length, type, data, CRC32 over type + data
written_chunk(length, type, data) ==
    Store32(swap_endian(U32(length))) \o type \o data
        \o Store32(swap_endian(compute_crc32(type \o data)))

\* a write that appends the chunk after every chunk it copies
write_round_every(st, buf, chunk) ==
    Walk(st, buf,
         LAMBDA s :
            LET copied == copy_chunk(s, buf)
            IN  [copied EXCEPT !.out = copied.out
                    \o Store32(swap_endian(U32(chunk.length))) \o chunk.type
                    \o Bytes(chunk.data, 0, chunk.length)
                    \o Store32(swap_endian(compute_crc32(chunk.type
                                                          \o Bytes(chunk.data, 0, chunk.length))))],
         LAMBDA s : write_IEND(s, buf))

\* a write that puts the chunk before the IHDR chunk it is about to copy
write_round_before(st, buf, chunk) ==
    Walk(st, buf,
         LAMBDA s :
            IF chunk_type_at(buf, s.ptr) = IHDR
            THEN copy_chunk([s EXCEPT !.out = s.out
                                \o Store32(swap_endian(U32(chunk.length))) \o chunk.type
                                \o Bytes(chunk.data, 0, chunk.length)
                                \o Store32(swap_endian(compute_crc32(chunk.type
                                        \o Bytes(chunk.data, 0, chunk.length))))], buf)
            ELSE copy_chunk(s, buf),
         LAMBDA s : write_IEND(s, buf))

\* rpng_chunk_write_from_memory; chunk is an rpng_chunk [length, type, data, crc]
write_round(st, buf, chunk) ==
    Walk(st, buf,
         LAMBDA s :
            LET copied == copy_chunk(s, buf)
            IN  IF chunk_type_at(buf, s.ptr) = IHDR
                THEN [copied EXCEPT !.out = copied.out
                         \o written_chunk(chunk.length, chunk.type,
                                          Bytes(chunk.data, 0, chunk.length))]
                ELSE copied,
         LAMBDA s : write_IEND(s, buf))

rpng_chunk_write_from_memory(buf, chunk) ==
    IF valid_signature(buf)
    THEN EditResult(Loop(LAMBDA st : write_round(st, buf, chunk),
                         [ptr |-> 8, out |-> png_signature, done |-> FALSE, overrun |-> FALSE],
                         MaxWalk(buf)))
    ELSE [NoResult EXCEPT !.overrun = ~signature_inside(buf)]

\* a combine that puts the data of each IDAT chunk before what it has
combine_round_reversed(st, buf) ==
    Walk(st, buf,
         LAMBDA s : IF chunk_type_at(buf, s.ptr) = IDAT
                    THEN [s EXCEPT !.idata = Bytes(buf, s.ptr + 8, chunk_size_at(buf, s.ptr))
                                                \o s.idata]
                    ELSE copy_chunk(s, buf),
         LAMBDA s : write_IEND([s EXCEPT !.out = s.out
                                   \o Store32(swap_endian(U32(Len(s.idata)))) \o IDAT \o s.idata
                                   \o Store32(swap_endian(compute_crc32(IDAT \o s.idata)))],
                               buf))

\* rpng_chunk_combine_image_data_from_memory; idata is idata_buffer after "IDAT"
combine_round(st, buf) ==
    Walk(st, buf,
         LAMBDA s : IF chunk_type_at(buf, s.ptr) = IDAT
                    THEN [s EXCEPT !.idata = s.idata
                             \o Bytes(buf, s.ptr + 8, chunk_size_at(buf, s.ptr))]
                    ELSE copy_chunk(s, buf),
         LAMBDA s : \* Write IDAT combined chunk, then the IEND chunk
                    write_IEND([s EXCEPT !.out = s.out \o written_chunk(Len(s.idata), IDAT, s.idata)],
                               buf))

rpng_chunk_combine_image_data_from_memory(buf) ==
    IF valid_signature(buf)
    THEN EditResult(Loop(LAMBDA st : combine_round(st, buf),
                         [ptr |-> 8, out |-> png_signature, done |-> FALSE, overrun |-> FALSE,
                          idata |-> <<>>],
                         MaxWalk(buf)))
    ELSE [NoResult EXCEPT !.overrun = ~signature_inside(buf)]

\* a piece taken without moving on in the data of the chunk
split_piece_no_advance(st, buf, split_size) ==
    IF st.chunk_remain_size > split_size
    THEN [out |-> st.out \o Store32(swap_endian(U32(split_size))) \o IDAT
                      \o Bytes(buf, st.buffer_ptr_offset, split_size)
                      \o Store32(swap_endian(compute_crc32(
                              IDAT \o Bytes(buf, st.buffer_ptr_offset, split_size)))),
          chunk_remain_size |-> st.chunk_remain_size - split_size,
          buffer_ptr_offset |-> st.buffer_ptr_offset]
    ELSE st

\* the inner loop of the split: a piece of split_size bytes while more than
\* split_size remain.  The loop state is [out, chunk_remain_size, buffer_ptr_offset].
split_piece(st, buf, split_size) ==
    IF st.chunk_remain_size > split_size
    THEN [out |-> st.out \o written_chunk(split_size, IDAT,
                                          Bytes(buf, st.buffer_ptr_offset, split_size)),
          chunk_remain_size |-> st.chunk_remain_size - split_size,
          buffer_ptr_offset |-> st.buffer_ptr_offset + split_size]
    ELSE st

\* a split that does not save the last piece
split_chunk_short(out, buf, ptr, split_size) ==
    Loop(LAMBDA st : split_piece(st, buf, split_size),
         [out |-> out, chunk_remain_size |-> chunk_size_at(buf, ptr),
          buffer_ptr_offset |-> ptr + 4 + 4],
         chunk_size_at(buf, ptr) \div split_size).out

\* Split chunk into pieces!  (split_size >= 1: with 0 the loop does not end)
split_chunk(out, buf, ptr, split_size) ==
    LET chunk_size == chunk_size_at(buf, ptr)
        pieces == Loop(LAMBDA st : split_piece(st, buf, split_size),
                       [out |-> out, chunk_remain_size |-> chunk_size,
                        buffer_ptr_offset |-> ptr + 4 + 4],
                       chunk_size \div split_size)
    IN  \* Save last IDAT chunk piece
        pieces.out \o written_chunk(pieces.chunk_remain_size, IDAT,
                                    Bytes(buf, pieces.buffer_ptr_offset, pieces.chunk_remain_size))

\* rpng_chunk_split_image_data_from_memory
split_round(st, buf, split_size) ==
    Walk(st, buf,
         LAMBDA s : IF chunk_type_at(buf, s.ptr) = IDAT /\ chunk_size_at(buf, s.ptr) > split_size
                    THEN [s EXCEPT !.out = split_chunk(s.out, buf, s.ptr, split_size)]
                    ELSE copy_chunk(s, buf),
         LAMBDA s : write_IEND(s, buf))

rpng_chunk_split_image_data_from_memory(buf, split_size) ==
    IF valid_signature(buf)
    THEN EditResult(Loop(LAMBDA st : split_round(st, buf, split_size),
                         [ptr |-> 8, out |-> png_signature, done |-> FALSE, overrun |-> FALSE],
                         MaxWalk(buf)))
    ELSE [NoResult EXCEPT !.overrun = ~signature_inside(buf)]

\* rpng_chunk_check_all_valid, on the bytes of the file: one round of the
\* loop over the chunks; the loop state is [i, result]
check_round(st, chunks, count) ==
    IF ~st.result \/ st.i >= count THEN st
    ELSE LET crc == swap_endian(compute_crc32(chunks[st.i + 1].type \o chunks[st.i + 1].data))
         IN  IF chunks[st.i + 1].crc # crc
             THEN [st EXCEPT !.result = FALSE]           \* break
             ELSE [st EXCEPT !.i = st.i + 1]

\* result: [result, overrun]
rpng_chunk_check_all_valid(buf) ==
    With(rpng_chunk_read_all_from_memory(buf),
         LAMBDA all :
            IF all.count = 0 THEN [result |-> FALSE, overrun |-> FALSE]
            ELSE [result |-> Loop(LAMBDA st : check_round(st, all.chunks, all.count),
                                  [i |-> 0, result |-> TRUE], all.count).result,
                  overrun |-> all.overrun])

----------------------------------------------------------------------------
(* What a reader sees in a stream *)

\* One round of a walk that lists the chunks of buf up to the first chunk of
\* type IEND, each with its offset and its bytes; the state is [ptr, chunks,
\* done, overrun].
list_round(st, buf) ==
    IF st.done THEN st
    ELSE IF ~chunk_inside(buf, st.ptr) THEN [st EXCEPT !.done = TRUE, !.overrun = TRUE]
    ELSE LET c == [ptr |-> st.ptr, bytes |-> whole_chunk(buf, st.ptr)] @@ read_chunk(buf, st.ptr)
         IN  [st EXCEPT !.ptr = next_chunk(buf, st.ptr), !.chunks = Append(st.chunks, c),
                        !.done = (c.type = IEND)]

\* [chunks, ptr, overrun]: the chunks, the offset after the IEND chunk
ListChunks(buf) ==
    Loop(LAMBDA st : list_round(st, buf),
         [ptr |-> 8, chunks |-> <<>>, done |-> FALSE, overrun |-> FALSE], MaxWalk(buf))

Chunks(buf) == ListChunks(buf).chunks

\* the stream is a signature and whole chunks, the last one the only IEND
WellFormed(buf) ==
    /\ valid_signature(buf)
    /\ LET l == ListChunks(buf) IN ~l.overrun /\ l.done /\ l.ptr = Len(buf)

\* the stored CRC of chunk c is the CRC-32 of its type and data
CrcValid(c) == c.crc = compute_crc32(c.type \o c.data)

TypeCount(cs, type) == Cardinality({i \in 1..Len(cs) : cs[i].type = type})

\* the PNG invariants of a stream
FirstIsIHDR(cs)  == Len(cs) >= 1 /\ cs[1].type = IHDR
LastIsIEND(cs)   == Len(cs) >= 1 /\ cs[Len(cs)].type = IEND
IDATConsecutive(cs) ==
    /\ \E i \in 1..Len(cs) : cs[i].type = IDAT
    /\ \A i, j \in 1..Len(cs) :
          (i < j /\ cs[i].type = IDAT /\ cs[j].type = IDAT)
              => \A k \in i..j : cs[k].type = IDAT
AllCrcValid(cs)  == \A i \in 1..Len(cs) : CrcValid(cs[i])

PngInvariants(buf) ==
    /\ WellFormed(buf)
    /\ LET cs == Chunks(buf)
       IN  FirstIsIHDR(cs) /\ LastIsIEND(cs) /\ IDATConsecutive(cs) /\ AllCrcValid(cs)

----------------------------------------------------------------------------
(* The inputs *)

MaxWidth == 2
MaxHeight == 2
NumPatterns == 2
MaxSplit == 3
MaxEdits == 3
MaxCodecEdits == 2

\* byte i of a pixel buffer: a ramp that wraps, or a slow gradient
PixelByte(pattern, i) ==
    IF pattern % 2 = 1 THEN (i * 37 * pattern + 5) % 256 ELSE (250 + ((i * pattern) \div 4)) % 256

Image(width, height, color_channels, bit_depth, pattern) ==
    [data |-> [i \in 1..(width * height * color_channels * (bit_depth \div 8)) |->
                  PixelByte(pattern, i - 1)],
     width |-> width, height |-> height,
     color_channels |-> color_channels, bit_depth |-> bit_depth]

NoImage == [data |-> <<>>, width |-> 0, height |-> 0, color_channels |-> 0, bit_depth |-> 0]

\* every supported format, every size up to the bounds
Images ==
    {Image(w, h, c, b, p) : w \in 1..MaxWidth, h \in 1..MaxHeight, c \in 1..4, b \in {8, 16},
                            p \in 1..NumPatterns}

\* the images the editing functions start from
EditImages == {Image(1, 1, 1, 8, 1), Image(MaxWidth, 1, 4, 8, 2)}

\* the images the readers of chunks start from
ReadImages == {Image(1, 1, 1, 8, 1), Image(MaxWidth, MaxHeight + 1, 4, 16, 1)}

\* an rpng_chunk to write; crc is computed on writing
NewChunk(type, data) == [length |-> Len(data), type |-> type, data |-> data, crc |-> <<0, 0, 0, 0>>]
NoChunk == NewChunk(<<>>, <<>>)

WriteChunks ==
    {NewChunk(tEXt, <<65, 0, 66>>), NewChunk(PLTE, <<1, 2, 3>>), NewChunk(tRNS, <<7>>),
     NewChunk(IDAT, <<9>>), NewChunk(IEND, <<>>)}

\* the stream of the smallest image, as the encoder makes it
SmallStream ==
    rpng_save_image_to_memory(Image(1, 1, 1, 8, 1).data, 1, 1, 1, 8).output_buffer

\* buffers without the signature: NULL, buffers shorter than the signature,
\* and buffers of 8 bytes and more that do not start with it
Unsigned ==
    {NULL, <<>>, SubSeq(png_signature, 1, 4),
     [png_signature EXCEPT ![1] = 0],
     [png_signature EXCEPT ![8] = 0] \o SubSeq(SmallStream, 9, Len(SmallStream)),
     <<255, 216, 255, 224, 0, 16, 74, 70, 73, 70>>}

\* streams cut short: the signature alone, the signature and a part of the
\* IHDR chunk, the stream without its IEND chunk, the stream cut inside the
\* CRC of its IEND chunk
Truncated ==
    {png_signature, SubSeq(SmallStream, 1, 8 + 4), SubSeq(SmallStream, 1, 8 + 8 + 5),
     SubSeq(SmallStream, 1, Len(SmallStream) - 12), SubSeq(SmallStream, 1, Len(SmallStream) - 2)}

GivenBuffers == Unsigned \cup Truncated \cup {SmallStream}

RemoveTypes == {IHDR, IDAT, IEND, tEXt, PLTE}

ReadTypes == {IHDR, IDAT, IEND, tEXt, PLTE, tRNS}

\* the changes of one byte
Masks == {1, 128}

\* the changes of the IHDR data, <<byte, value>>: bit depth 1, 2 and 4,
\* colour type 3 (indexed), interlace 1 (Adam7), a width and a height
\* larger than those of the image
HeaderChanges ==
    {<<8, 1>>, <<8, 2>>, <<8, 4>>, <<9, 3>>, <<12, 1>>, <<3, MaxWidth + 1>>, <<7, MaxHeight + 1>>}

\* the bytes the Paeth predictor is tried on: those up to PaethSpan from
\* either end of 0..255, and the two in the middle
PaethSpan == 5
PaethValues == (0..PaethSpan) \cup ((255 - PaethSpan)..255) \cup {127, 128}

----------------------------------------------------------------------------
(* The state machine.  buffer is the PNG stream the program holds (a memory *)
(* buffer or the bytes of the file), image the image it was encoded from,  *)
(* call the last call that made buffer, prev the call before it, edits the *)
(* number of editing calls since the image was encoded, and query the last *)
(* call that only read buffer, with what it returned.                      *)

Call(op, chunk_type, chunk, split_size, input, output, output_size, overrun) ==
    [op |-> op, chunk_type |-> chunk_type, chunk |-> chunk, split_size |-> split_size,
     input |-> input, output |-> output, output_size |-> output_size, overrun |-> overrun]

NoCall == Call("none", <<>>, NoChunk, 0, NULL, NULL, 0, FALSE)

NoLoad == LoadResult(NULL, -1, -1, -1, -1, FALSE)

\* what a call that read chunks returned: the chunk of
\* rpng_chunk_read_from_memory, the chunks of rpng_chunk_read_all_from_memory
Read(chunk_type, chunk, chunks) == [chunk_type |-> chunk_type, chunk |-> chunk, chunks |-> chunks]

NoRead == Read(<<>>, EmptyChunk, NULL)

ReadQuery(op, read, count, overrun) ==
    [op |-> op, load |-> NoLoad, valid |-> FALSE, count |-> count, overrun |-> overrun,
     read |-> read]

Query(op, load, valid, count, overrun) ==
    [op |-> op, load |-> load, valid |-> valid, count |-> count, overrun |-> overrun,
     read |-> NoRead]

NoQuery == Query("none", NoLoad, FALSE, 0, FALSE)

Init ==
    /\ buffer = NULL
    /\ image = NoImage
    /\ call = NoCall
    /\ prev = NoCall
    /\ edits = 0
    /\ query = NoQuery

\* rpng_save_image_to_memory(img.data, ...): the program encodes an image.
\* A behaviour follows the stream of one image: the call is the first one.
Save(img) ==
    /\ buffer = NULL
    /\ call.op = "none"
    /\ With(rpng_save_image_to_memory(img.data, img.width, img.height,
                                      img.color_channels, img.bit_depth),
            LAMBDA r : /\ buffer' = r.output_buffer
                       /\ call' = Call("save", <<>>, NoChunk, 0, img.data, r.output_buffer,
                                       r.output_size, FALSE))
    /\ image' = img
    /\ prev' = NoCall
    /\ edits' = 0
    /\ query' = NoQuery

\* the program is given a buffer that no call of the library made: NULL,
\* bytes that are no PNG stream, or a stream cut short
Given(buf) ==
    /\ buffer = NULL
    /\ call.op = "none"
    /\ buffer' = buf
    /\ call' = Call("given", <<>>, NoChunk, 0, NULL, buf, IF buf = NULL THEN 0 ELSE Len(buf), FALSE)
    /\ prev' = NoCall
    /\ query' = NoQuery
    /\ UNCHANGED <<image, edits>>

\* the program holds a buffer to call a function with: a stream, or the
\* NULL it was given
Held == buffer # NULL \/ call.op = "given"

\* an editing call took buffer and returned r: the program goes on with the
\* returned stream.  (A call that only reads leaves the stream as it is: what
\* can follow it is what can follow the state before it, and a behaviour is
\* not followed past it.)
Edited(op, chunk_type, chunk, split_size, r) ==
    /\ query.op = "none"
    /\ buffer' = r.output_buffer
    /\ call' = Call(op, chunk_type, chunk, split_size, buffer, r.output_buffer,
                    r.output_size, r.overrun)
    /\ prev' = call
    /\ edits' = edits + 1
    /\ query' = NoQuery
    /\ UNCHANGED image

Remove(chunk_type) ==
    /\ Held
    /\ Edited("remove", chunk_type, NoChunk, 0, rpng_chunk_remove_from_memory(buffer, chunk_type))

RemoveAncillary ==
    /\ Held
    /\ Edited("remove_ancillary", <<>>, NoChunk, 0, rpng_chunk_remove_ancillary_from_memory(buffer))

Write(chunk) ==
    /\ Held
    /\ Edited("write", <<>>, chunk, 0, rpng_chunk_write_from_memory(buffer, chunk))

Combine ==
    /\ Held
    /\ Edited("combine", <<>>, NoChunk, 0, rpng_chunk_combine_image_data_from_memory(buffer))

Split(split_size) ==
    /\ Held
    /\ Edited("split", <<>>, NoChunk, split_size,
              rpng_chunk_split_image_data_from_memory(buffer, split_size))

\* the environment changes one byte of the IDAT payload of a stream the
\* encoder has just made: the byte at offset, by mask
Corrupt(offset, mask) ==
    /\ call.op = "save"
    /\ query.op = "none"
    /\ buffer # NULL
    /\ offset >= 8 + 25 + 8
    /\ offset < 8 + 25 + 8 + chunk_size_at(buffer, 8 + 25)
    /\ LET changed == [buffer EXCEPT ![offset + 1] = XorByte(@, mask)]
       IN  /\ buffer' = changed
           /\ call' = Call("corrupt", <<>>, NoChunk, 0, buffer, changed, Len(changed), FALSE)
    /\ prev' = call
    /\ query' = NoQuery
    /\ UNCHANGED <<image, edits>>

\* the program is given the stream of another encoder: the stream of the
\* image with byte field of its IHDR data set to value, and the CRC of the
\* IHDR chunk that of the changed data
Header(field, value) ==
    /\ call.op = "save"
    /\ query.op = "none"
    /\ buffer # NULL
    /\ LET data == [Bytes(buffer, 8 + 8, 13) EXCEPT ![field + 1] = value]
           changed == SubSeq(buffer, 1, 8 + 8) \o data \o compute_crc32(IHDR \o data)
                          \o SubSeq(buffer, 8 + 25 + 1, Len(buffer))
       IN  /\ buffer' = changed
           /\ call' = Call("header", <<>>, NoChunk, 0, buffer, changed, Len(changed), FALSE)
    /\ prev' = call
    /\ query' = NoQuery
    /\ UNCHANGED <<image, edits>>

\* rpng_load_image_from_memory(buffer, ...)
Load ==
    /\ buffer # NULL
    /\ query.op = "none"
    /\ With(rpng_load_image_from_memory(buffer),
            LAMBDA r : \E data \in (IF r.data = <<>> THEN {NULL, <<>>} ELSE {r.data}) :
                          \* RPNG_CALLOC(0, 1) returns NULL or an allocation of no bytes
                          query' = Query("load", [r EXCEPT !.data = data], FALSE, 0,
                                         r.undefined))
    /\ UNCHANGED <<buffer, image, call, prev, edits>>

\* rpng_chunk_check_all_valid on the file that holds buffer
CheckAllValid ==
    /\ buffer # NULL
    /\ query.op = "none"
    /\ With(rpng_chunk_check_all_valid(buffer),
            LAMBDA r : query' = Query("check_all_valid", NoLoad, r.result, 0, r.overrun))
    /\ UNCHANGED <<buffer, image, call, prev, edits>>

\* rpng_chunk_count_from_memory(buffer)
Count ==
    /\ Held
    /\ query.op = "none"
    /\ With(rpng_chunk_count_from_memory(buffer),
            LAMBDA r : query' = Query("count", NoLoad, FALSE, r.count, r.overrun))
    /\ UNCHANGED <<buffer, image, call, prev, edits>>

\* rpng_chunk_read_all_from_memory(buffer, &count)
ReadAll ==
    /\ Held
    /\ query.op = "none"
    /\ With(rpng_chunk_read_all_from_memory(buffer),
            LAMBDA r : \E chunks \in (IF r.count = 0 THEN {NULL, <<>>} ELSE {r.chunks}) :
                          \* RPNG_REALLOC(NULL, 0) returns NULL or an allocation of no bytes
                          query' = ReadQuery("read_all", Read(<<>>, EmptyChunk, chunks),
                                             r.count, r.overrun))
    /\ UNCHANGED <<buffer, image, call, prev, edits>>

\* rpng_chunk_read_from_memory(buffer, chunk_type)
ReadChunk(chunk_type) ==
    /\ Held
    /\ query.op = "none"
    /\ With(rpng_chunk_read_from_memory(buffer, chunk_type),
            LAMBDA r : query' = ReadQuery("read", Read(chunk_type, r.chunk, NULL), 0, r.overrun))
    /\ UNCHANGED <<buffer, image, call, prev, edits>>

\* the chunk engine at work on a few encoded images
Next ==
    \/ \E img \in EditImages : Save(img)
    \/ edits < MaxEdits /\ \E chunk_type \in RemoveTypes : Remove(chunk_type)
    \/ edits < MaxEdits /\ RemoveAncillary
    \/ edits < MaxEdits /\ \E chunk \in WriteChunks : Write(chunk)
    \/ edits < MaxEdits /\ Combine
    \/ edits < MaxEdits /\ \E split_size \in 1..MaxSplit : Split(split_size)
    \/ Count

Spec == Init /\ [][Next]_vars

\* the codec at work on every image, with streams split, combined or damaged
CodecNext ==
    \/ \E img \in Images : Save(img)
    \/ \E offset \in 0..Len(buffer), mask \in Masks : Corrupt(offset, mask)
    \/ edits < MaxCodecEdits /\ call.op # "corrupt" /\ Combine
    \/ edits < MaxCodecEdits /\ call.op # "corrupt" /\ \E split_size \in 1..MaxSplit : Split(split_size)
    \/ Load
    \/ CheckAllValid

CodecSpec == Init /\ [][CodecNext]_vars

\* the readers of chunks at work: on a small stream, and on one that the
\* split into pieces of one byte cuts into more than RPNG_MAX_CHUNKS_COUNT
\* chunks
ReadNext ==
    \/ \E img \in ReadImages : Save(img)
    \/ edits < MaxCodecEdits /\ \E chunk \in WriteChunks : Write(chunk)
    \/ edits < MaxCodecEdits /\ \E split_size \in 1..MaxSplit : Split(split_size)
    \/ ReadAll
    \/ \E chunk_type \in ReadTypes : ReadChunk(chunk_type)

ReadSpec == Init /\ [][ReadNext]_vars

\* the decoder at work on streams of formats the encoder does not make
FormatNext ==
    \/ \E img \in Images : Save(img)
    \/ \E change \in HeaderChanges : Header(change[1], change[2])
    \/ Load

FormatSpec == Init /\ [][FormatNext]_vars

\* the chunk engine given buffers that are no complete PNG stream
RejectNext ==
    \/ \E buf \in GivenBuffers : Given(buf)
    \/ edits < 1 /\ \E chunk_type \in RemoveTypes : Remove(chunk_type)
    \/ edits < 1 /\ RemoveAncillary
    \/ edits < 1 /\ \E chunk \in WriteChunks : Write(chunk)
    \/ edits < 1 /\ Combine
    \/ edits < 1 /\ \E split_size \in 1..MaxSplit : Split(split_size)
    \/ Count
    \/ ReadAll
    \/ \E chunk_type \in ReadTypes : ReadChunk(chunk_type)

RejectSpec == Init /\ [][RejectNext]_vars

\* the Paeth predictor by itself: a, b and c are the bytes left, above and
\* upper left of the byte the filter is at; pr is -1 until it has returned
PaethArgs(a, b, c) == [op |-> "paeth", a |-> a, b |-> b, c |-> c, pr |-> -1]

PaethInit ==
    /\ buffer = NULL
    /\ image = NoImage
    /\ call = NoCall
    /\ prev = NoCall
    /\ edits = 0
    /\ \E a \in PaethValues, b \in PaethValues, c \in PaethValues : query = PaethArgs(a, b, c)

\* rpng_paeth_predictor(a, b, c)
PaethPredictor ==
    /\ query.op = "paeth"
    /\ query.pr = -1
    /\ query' = [query EXCEPT !.pr = rpng_paeth_predictor(query.a, query.b, query.c)]
    /\ UNCHANGED <<buffer, image, call, prev, edits>>

PaethNext == PaethPredictor

PaethSpec == PaethInit /\ [][PaethNext]_vars

----------------------------------------------------------------------------
(* The encoder by itself, on long inputs *)

MaxBlocks == 2
MaxUnits == 40000

\* input lengths about the multiples of SDEFL_BLK_MAX, and short ones
RunLengths ==
    {0, 1, 5, 6, 7, 300}
      \cup {k * SDEFL_BLK_MAX + d : k \in 1..MaxBlocks, d \in {-1, 0, 1, 100, 258, 259}}

DeflateInputs ==
    {[kind |-> "run", in_len |-> n] : n \in RunLengths}
      \cup {[kind |-> "units", in_len |-> UnitSize * u] : u \in {4, 100, MaxUnits}}

Deflate(in, lvl) ==
    [op |-> "deflate", in |-> in, lvl |-> lvl, blocks |-> <<>>, asserted |-> FALSE,
     returned |-> FALSE]

DeflateInit ==
    /\ buffer = NULL
    /\ image = NoImage
    /\ call = NoCall
    /\ prev = NoCall
    /\ edits = 0
    /\ \E in \in DeflateInputs, lvl \in 0..8 : query = Deflate(in, lvl)

\* sdefl_compr(s, out, in, in_len, lvl), as zsdeflate calls it
SdeflCompr ==
    /\ query.op = "deflate"
    /\ ~query.returned
    /\ ~query.asserted
    /\ With(sdefl_compr_blocks(query.in, query.lvl),
            LAMBDA r : query' = [query EXCEPT !.blocks = r.blocks, !.asserted = r.asserted,
                                              !.returned = ~r.asserted])
    /\ UNCHANGED <<buffer, image, call, prev, edits>>

DeflateNext == SdeflCompr

DeflateSpec == DeflateInit /\ [][DeflateNext]_vars
----------------------------------------------------------------------------
(* The decoder by itself, on streams of stored blocks and fixed codes.     *)
(* raw is the deflate stream, data the bytes it stands for by RFC 1951 (up *)
(* to the place where it stops being a deflate stream).                    *)

\* one final stored block: hello
Stream_stored ==
    [name |-> "stored",
     raw |-> <<1, 5, 0, 250, 255, 104, 101, 108, 108, 111>>,
     data |-> <<104, 101, 108, 108, 111>>]

\* the same with NLEN = 0
Stream_stored_nlen ==
    [name |-> "stored_nlen",
     raw |-> <<1, 5, 0, 0, 0, 104, 101, 108, 108, 111>>,
     data |-> <<104, 101, 108, 108, 111>>]

\* one final stored block: the byte 7
Stream_stored_seven ==
    [name |-> "stored_seven",
     raw |-> <<1, 1, 0, 254, 255, 7>>,
     data |-> <<7>>]

\* the same with NLEN = 0
Stream_stored_nlen_seven ==
    [name |-> "stored_nlen_seven",
     raw |-> <<1, 1, 0, 0, 0, 7>>,
     data |-> <<>>]

\* one final stored block with LEN = 0
Stream_stored_empty ==
    [name |-> "stored_empty",
     raw |-> <<1, 0, 0, 255, 255>>,
     data |-> <<>>]

\* one final block of fixed codes: the literals abcdefgh
Stream_literals ==
    [name |-> "literals",
     raw |-> <<75, 76, 74, 78, 73, 77, 75, 207, 0, 0>>,
     data |-> <<97, 98, 99, 100, 101, 102, 103, 104>>]

\* one final block of fixed codes: the literal 0 and a match of 19 bytes at
\* distance 1
Stream_match ==
    [name |-> "match",
     raw |-> <<99, 96, 192, 4, 0>>,
     data |-> <<0, 0, 0, 0, 0, 0, 0, 0, 0, 0, 0, 0, 0, 0, 0, 0, 0, 0, 0, 0>>]

\* a final header with BTYPE = 3
Stream_type3 ==
    [name |-> "type3",
     raw |-> <<7>>,
     data |-> <<>>]

\* a block of fixed codes with the literal a, then a final header with
\* BTYPE = 3
Stream_literal_type3 ==
    [name |-> "literal_type3",
     raw |-> <<74, 4, 28>>,
     data |-> <<97>>]

\* a stored block hi, then a final block of fixed codes with the literal a
Stream_stored_literal ==
    [name |-> "stored_literal",
     raw |-> <<0, 2, 0, 253, 255, 104, 105, 75, 4, 0>>,
     data |-> <<104, 105, 97>>]

\* two blocks of fixed codes: the literals ab, then the literal c
Stream_two_blocks ==
    [name |-> "two_blocks",
     raw |-> <<74, 76, 2, 44, 25, 0>>,
     data |-> <<97, 98, 99>>]

InflateStreams ==
    {Stream_stored, Stream_stored_nlen, Stream_stored_seven, Stream_stored_nlen_seven,
     Stream_stored_empty, Stream_literals, Stream_match,
     Stream_type3, Stream_literal_type3, Stream_stored_literal, Stream_two_blocks}

\* the capacities of the caller's output buffer
InflateCaps == {2, 8, 64}

\* the byte at the places around the caller's input buffer
AroundBytes == {0, 255}

\* the stream as zsinflate takes it: CMF, FLG, the blocks, Adler-32 of data
ZlibOf(stream) == <<120, 1>> \o stream.raw \o sdefl_adler32(stream.data)

Inflate(entry, stream, cap, around) ==
    [op |-> "inflate", entry |-> entry, stream |-> stream,
     m |-> [mem |-> IF entry = "zsinflate" THEN ZlibOf(stream) ELSE stream.raw,
            around |-> around],
     cap |-> cap, returned |-> FALSE, n |-> 0, end |-> <<>>]

InflateInit ==
    /\ buffer = NULL
    /\ image = NoImage
    /\ call = NoCall
    /\ prev = NoCall
    /\ edits = 0
    /\ \E entry \in {"sinflate", "zsinflate"}, stream \in InflateStreams,
          cap \in InflateCaps, around \in AroundBytes :
          query = Inflate(entry, stream, cap, around)

\* sinflate(out, cap, in, size)
Sinflate ==
    /\ query.op = "inflate"
    /\ query.entry = "sinflate"
    /\ ~query.returned
    /\ With(sinflate(query.cap, query.m),
            LAMBDA r : query' = [query EXCEPT !.returned = TRUE, !.n = r.n, !.end = r.end])
    /\ UNCHANGED <<buffer, image, call, prev, edits>>

\* zsinflate(out, cap, mem, size)
Zsinflate ==
    /\ query.op = "inflate"
    /\ query.entry = "zsinflate"
    /\ ~query.returned
    /\ With(zsinflate_bits(query.cap, query.m),
            LAMBDA r : query' = [query EXCEPT !.returned = TRUE, !.n = r.n, !.end = r.end])
    /\ UNCHANGED <<buffer, image, call, prev, edits>>

InflateNext == Sinflate \/ Zsinflate

InflateSpec == InflateInit /\ [][InflateNext]_vars
----------------------------------------------------------------------------
(* The bit count of the decoder.  Of struct sinfl only bitcnt is kept: b is *)
(* [bitcnt, refilled, asserted], refilled the count the last sinfl_refill   *)
(* left (-1 before the first), asserted that an assertion of sinfl_peek or  *)
(* sinfl_consume failed.                                                    *)
(* A Huffman code is [len, sub]: len its length, and for a code longer than *)
(* the bits of the main table, sub the bits of its sub-table.               *)

\* sinfl_refill: s->bitcnt |= 56
cnt_refill(b) ==
    IF b.asserted THEN b
    ELSE [b EXCEPT !.bitcnt = 56 + (b.bitcnt % 8), !.refilled = 56 + (b.bitcnt % 8)]

\* sinfl_peek(s, cnt)
cnt_peek(b, cnt) ==
    IF b.asserted THEN b
    ELSE IF cnt >= 0 /\ cnt <= 56 /\ cnt <= b.bitcnt THEN b
    ELSE [b EXCEPT !.asserted = TRUE]

\* sinfl_consume(s, cnt)
cnt_consume(b, cnt) ==
    IF b.asserted THEN b
    ELSE IF cnt <= b.bitcnt THEN [b EXCEPT !.bitcnt = b.bitcnt - cnt]
    ELSE [b EXCEPT !.asserted = TRUE]

\* sinfl__get(s, cnt)
cnt__get(b, cnt) == cnt_consume(cnt_peek(b, cnt), cnt)

\* sinfl_get(s, cnt)
cnt_get(b, cnt) == cnt__get(cnt_refill(b), cnt)

\* sinfl_decode(s, tbl, bit_len) of a code
cnt_decode(b, code, bit_len) ==
    LET idx == cnt_peek(b, bit_len)
    IN  IF code.len > bit_len                                  \* key & 0x10
        THEN cnt_consume(cnt_peek(cnt_consume(idx, bit_len), code.sub), code.len - bit_len)
        ELSE cnt_consume(idx, code.len)

\* the tables of a block are [lits, dsts]: the lengths of the codes a round
\* is tried with.  Those of the fixed codes, and two pairs that code
\* lengths of a dynamic block make
FixedTables == [lits |-> {7, 8, 9}, dsts |-> {5}]
DynTables == {[lits |-> {2, 10, 15}, dsts |-> {1, 15}], [lits |-> {1, 11}, dsts |-> {2, 9}]}

\* the numbers of extra bits of a length (lbits) and of a distance (dbits)
\* a round is tried with
LengthBits == {0, 1, 5}
DistanceBits == {0, 4, 13}

Longest(lens) == CHOOSE l \in lens : \A c \in lens : c <= l

\* the codes of the lengths lens in a table whose main table has bit_len
\* bits: the sub-table of a longer code has from len - bit_len bits to those
\* of the longest code
Codes(bit_len, lens) ==
    {[len |-> l, sub |-> 0] : l \in {c \in lens : c <= bit_len}}
      \cup UNION {{[len |-> l, sub |-> s] : s \in {l - bit_len, Longest(lens) - bit_len}} :
                  l \in {c \in lens : c > bit_len}}

Budget(state, tables, b, last) ==
    [op |-> "budget", state |-> state, tables |-> tables, b |-> b, last |-> last]

NoTables == [lits |-> {}, dsts |-> {}]

BudgetInit ==
    /\ buffer = NULL
    /\ image = NoImage
    /\ call = NoCall
    /\ prev = NoCall
    /\ edits = 0
    /\ query = Budget("hdr", NoTables, [bitcnt |-> 0, refilled |-> -1, asserted |-> FALSE], 0)

Running(state) == query.op = "budget" /\ query.state = state /\ ~query.b.asserted

BudgetStep(state, tables, b, last) ==
    /\ query' = Budget(IF b.asserted THEN "aborted" ELSE state, tables, b, last)
    /\ UNCHANGED <<buffer, image, call, prev, edits>>

\* case hdr, for a block of fixed or of dynamic codes
BudgetHdr ==
    /\ Running("hdr")
    /\ \E last \in {0, 1}, type \in {1, 2} :
          BudgetStep(IF type = 1 THEN "fixed" ELSE "dyn", NoTables,
                     cnt__get(cnt__get(cnt_refill(query.b), 1), 2), last)

\* case fixed
BudgetFixed ==
    /\ Running("fixed")
    /\ BudgetStep("blk", FixedTables, query.b, query.last)

\* case dyn up to the code lengths of the code lengths: nlen of them
BudgetDyn ==
    /\ Running("dyn")
    /\ \E nlen \in 4..19 :
          LET head == cnt__get(cnt__get(cnt__get(cnt_refill(query.b), 5), 5), 4)
          IN  BudgetStep("lens", NoTables,
                         Loop(LAMBDA b : cnt_get(b, 3), head, nlen), query.last)

\* case dyn: one round of the loop over the code lengths, a length or one
\* of the symbols 16, 17, 18 with 2, 3, 7 more bits
BudgetLens ==
    /\ Running("lens")
    /\ \E len \in 1..7, more \in {0, 2, 3, 7} :
          LET sym == cnt_decode(cnt_refill(query.b), [len |-> len, sub |-> 0], 7)
          IN  BudgetStep("lens", NoTables, IF more = 0 THEN sym ELSE cnt_get(sym, more),
                         query.last)

\* case dyn: the tables built
BudgetTables ==
    /\ Running("lens")
    /\ \E tables \in DynTables : BudgetStep("blk", tables, query.b, query.last)

\* what follows a symbol that is no literal: the end of the block, or a
\* match with its extra bits
BudgetRest(b, end) ==
    IF end
    THEN BudgetStep(IF query.last = 1 THEN "returned" ELSE "hdr", query.tables, b, query.last)
    ELSE \E lb \in LengthBits, db \in DistanceBits,
            dst \in Codes(8, query.tables.dsts) :
            BudgetStep("blk", query.tables,
                       cnt__get(cnt_decode(cnt__get(b, lb), dst, 8), db), query.last)

\* case blk: one round of its while (1)
BudgetBlk ==
    /\ Running("blk")
    /\ \E one \in Codes(10, query.tables.lits),
          literal \in BOOLEAN, end \in BOOLEAN :
          LET first == cnt_decode(cnt_refill(query.b), one, 10)
          IN  IF literal
              THEN \E two \in Codes(10, query.tables.lits),
                      literal2 \in BOOLEAN :
                      LET second == cnt_decode(first, two, 10)
                      IN  IF literal2
                          THEN BudgetStep("blk", query.tables, second, query.last)
                          ELSE BudgetRest(second, end)
              ELSE BudgetRest(first, end)

BudgetNext == BudgetHdr \/ BudgetFixed \/ BudgetDyn \/ BudgetLens \/ BudgetTables \/ BudgetBlk

BudgetSpec == BudgetInit /\ [][BudgetNext]_vars

----------------------------------------------------------------------------
(* Properties of the codec *)

\* the decoder returned the pixels and the description of img
Decoded(r, img) ==
    /\ ~r.undefined
    /\ r.data # NULL
    /\ Len(r.data) >= Len(img.data)
    /\ SubSeq(r.data, 1, Len(img.data)) = img.data
    /\ r.width = img.width
    /\ r.height = img.height
    /\ r.color_channels = img.color_channels
    /\ r.bit_depth = img.bit_depth

\* C1: round trip.  For every supported format, width and height, loading
\* the stream that rpng_save_image_to_memory made of a pixel buffer returns
\* the bytes of that buffer with the same width, height, channels and bit
\* depth.  (The claim takes deflate and inflate as an exact inverse pair; in
\* the source the inflate buffer ends at RPNG_MAX_OUTPUT_SIZE bytes.)
RoundTrip == (query.op = "load" /\ call.op = "save") => Decoded(query.load, image)

RoundTripWitness ==
    /\ query.op = "load"
    /\ call.op = "save"
    /\ image.width = MaxWidth /\ image.height = MaxHeight
    /\ image.color_channels = 4 /\ image.bit_depth = 16
    /\ Decoded(query.load, image)
    /\ \E i \in 1..Len(image.data) : image.data[i] # 0

\* C2: rpng_chunk_check_all_valid returns true exactly when the stored CRC of
\* every chunk of the stream is the CRC-32 of its type and data; so it
\* returns true for every stream the encoder made.
CheckAllValidComparesCrc ==
    query.op = "check_all_valid" => (query.valid <=> AllCrcValid(Chunks(buffer)))

\* C3: a stream whose image data lies in two or more IDAT chunks, made by
\* rpng_chunk_split_image_data_from_memory from an encoded stream, decodes
\* to the pixel buffer of the encoded stream.
MultiIdatDecode ==
    (/\ query.op = "load"
     /\ call.op = "split"
     /\ prev.op = "save"
     /\ TypeCount(Chunks(buffer), IDAT) >= 2) => Decoded(query.load, image)

\* C4: after the change of one byte of the IDAT payload of an encoded
\* stream, rpng_chunk_check_all_valid returns false and
\* rpng_load_image_from_memory returns no pixel buffer.
CorruptionDetected ==
    call.op = "corrupt" =>
        /\ query.op = "check_all_valid" => ~query.valid
        /\ query.op = "load" => query.load.data = NULL

----------------------------------------------------------------------------
(* Properties of the chunk engine *)

\* a valid stream: the PNG invariants, and one IHDR chunk
ValidStream(buf) == PngInvariants(buf) /\ TypeCount(Chunks(buf), IHDR) = 1

CountOf(buf) == rpng_chunk_count_from_memory(buf).count

\* the last two calls wrote a chunk into a valid stream and then removed
\* the type of that chunk from the result
WroteThenRemoved ==
    /\ call.op = "remove"
    /\ prev.op = "write"
    /\ call.chunk_type = prev.chunk.type
    /\ ValidStream(prev.input)

\* the three counts of the identity are equal
CountsAgree ==
    /\ CountOf(prev.input) = CountOf(prev.output) - 1
    /\ CountOf(prev.input) = CountOf(call.output)

\* C5 as stated: for every valid stream s and every chunk c,
\* count(s) = count(write(s, c)) - 1 = count(remove(write(s, c), c.type)).
CountIdentity == WroteThenRemoved => CountsAgree

\* C5: for every valid stream s and every chunk c whose type is the type of
\* no chunk of s (so not IHDR, IDAT or IEND),
\* count(s) = count(write(s, c)) - 1 = count(remove(write(s, c), c.type)).
CountIdentityOfNewType ==
    (WroteThenRemoved /\ TypeCount(Chunks(prev.input), prev.chunk.type) = 0) => CountsAgree

CountIdentityWitness ==
    /\ WroteThenRemoved
    /\ TypeCount(Chunks(prev.input), prev.chunk.type) = 0
    /\ prev.chunk.type = tEXt
    /\ CountOf(prev.output) = CountOf(call.output) + 1
    /\ CountOf(prev.input) >= 4

\* C6: for every valid stream s and every piece size k >= 1, combining the
\* IDAT chunks of split(s, k) gives, byte for byte, what combining the IDAT
\* chunks of s gives.
SplitCombineLaw ==
    (call.op = "split" /\ ValidStream(call.input)) =>
        rpng_chunk_combine_image_data_from_memory(call.output)
            = rpng_chunk_combine_image_data_from_memory(call.input)

SplitCombineWitness ==
    /\ call.op = "split"
    /\ ValidStream(call.input)
    /\ TypeCount(Chunks(call.output), IDAT) > TypeCount(Chunks(call.input), IDAT)
    /\ TypeCount(Chunks(call.input), IDAT) >= 2
    /\ call.split_size >= 2

\* C7: every stream that the editing functions make, in any sequence, from a
\* stream that satisfies the PNG invariants (first chunk IHDR, last chunk
\* IEND, the IDAT chunks consecutive, every stored CRC the computed CRC)
\* satisfies them.  The streams of the encoder satisfy them.
InvariantsPreserved == buffer # NULL => PngInvariants(buffer)

\* chunk c of the output of the last call is a chunk of its input, copied
CopiedChunk(c) == \E i \in 1..Len(Chunks(call.input)) : Chunks(call.input)[i].bytes = c.bytes

\* the chunks of the output of the last call that the call wrote itself
WrittenChunks ==
    LET cs == Chunks(call.output)
    IN  CASE call.op = "save"    -> {i \in 1..Len(cs) : TRUE}
          [] call.op = "write"   -> {i \in 2..Len(cs) : cs[i - 1].type = IHDR
                                                        /\ cs[i].type = call.chunk.type
                                                        /\ cs[i].data = call.chunk.data}
          [] call.op = "combine" -> {i \in 1..Len(cs) : cs[i].type = IDAT}
          [] call.op = "split"   -> {i \in 1..Len(cs) : cs[i].type = IDAT /\ ~CopiedChunk(cs[i])}
          [] OTHER -> {}

\* C8: every chunk the library writes ends with the CRC-32 of its type and
\* data: the IHDR, IDAT and IEND chunks of the encoder (IEND with AE 42 60
\* 82), the chunk that rpng_chunk_write_from_memory inserts, the chunk that
\* the combine writes and every piece that the split writes.
WrittenChunksCarryCrc ==
    call.output # NULL =>
        LET cs == Chunks(call.output)
        IN  /\ \A i \in WrittenChunks : CrcValid(cs[i])
            /\ call.op = "save" =>
                  /\ Len(cs) = 3
                  /\ cs[3].bytes = <<0, 0, 0, 0, 73, 69, 78, 68, 174, 66, 96, 130>>
            /\ call.op = "combine" => WrittenChunks # {}
            /\ (call.op = "write" /\ TypeCount(Chunks(call.input), IHDR) >= 1)
                  => WrittenChunks # {}

WrittenChunksWitness ==
    /\ call.op = "split"
    /\ call.split_size = 2
    /\ prev.op = "write"
    /\ prev.chunk.type = tEXt
    /\ Cardinality(WrittenChunks) >= 3
    /\ \A i \in WrittenChunks : CrcValid(Chunks(call.output)[i])

\* C9: the stream of the encoder is the signature, an IHDR chunk with 13
\* bytes of data (width and height big-endian, bit depth, colour type,
\* compression = filter = interlace = 0), one IDAT chunk and the IEND chunk
\* 00 00 00 00 49 45 4E 44 AE 42 60 82, and the size it reports is the
\* number of bytes of the stream.
EncoderLayout ==
    call.op = "save" =>
        LET out == call.output
            n == Len(out)
        IN  /\ out # NULL
            /\ n >= 8 + 25 + 12 + 12
            /\ Bytes(out, 0, 8) = <<137, 80, 78, 71, 13, 10, 26, 10>>
            /\ Bytes(out, 8, 8) = <<0, 0, 0, 13, 73, 72, 68, 82>>
            /\ Bytes(out, 16, 13) = <<0, 0, image.width \div 256, image.width % 256,
                                      0, 0, image.height \div 256, image.height % 256,
                                      image.bit_depth,
                                      CASE image.color_channels = 1 -> 0
                                        [] image.color_channels = 2 -> 4
                                        [] image.color_channels = 3 -> 2
                                        [] image.color_channels = 4 -> 6,
                                      0, 0, 0>>
            /\ Bytes(out, 33, 4) = <<0, 0, (n - 57) \div 256, (n - 57) % 256>>
            /\ Bytes(out, 37, 4) = <<73, 68, 65, 84>>
            /\ Bytes(out, n - 12, 12) = <<0, 0, 0, 0, 73, 69, 78, 68, 174, 66, 96, 130>>
            /\ call.output_size = n

EncoderLayoutWitness ==
    /\ call.op = "save"
    /\ image.color_channels = 3
    /\ image.bit_depth = 16
    /\ image.width = MaxWidth
    /\ call.output_size > 8 + 25 + 12 + 12

\* the bytes of the chunks cs, chunk by chunk
BytesOf(cs) == [i \in 1..Len(cs) |-> cs[i].bytes]

\* the chunks cs without the first one of the type
OmitFirst(cs, type) ==
    LET m == {i \in 1..Len(cs) : cs[i].type = type}
        first == CHOOSE i \in m : \A j \in m : i <= j
    IN  IF m = {} THEN cs
        ELSE [k \in 1..(Len(cs) - 1) |-> IF k < first THEN cs[k] ELSE cs[k + 1]]

\* the chunks cs without those of the type, the closing IEND chunk kept
OmitAll(cs, type) == SelectSeq(cs, LAMBDA c : c.type # type \/ c.type = IEND)

\* the output of the last call is a stream of exactly the chunks cs
OutputIs(cs) ==
    /\ WellFormed(call.output)
    /\ BytesOf(Chunks(call.output)) = BytesOf(cs)
    /\ call.output_size = Len(call.output)

\* C10 as stated: rpng_chunk_remove_from_memory leaves out only the first
\* chunk of the requested type; the other chunks, later ones of that type
\* among them, are copied in their order; without a match the output is the
\* input.
RemoveOmitsFirst ==
    (call.op = "remove" /\ ValidStream(call.input)) =>
        /\ OutputIs(OmitFirst(Chunks(call.input), call.chunk_type))
        /\ TypeCount(Chunks(call.input), call.chunk_type) = 0 => call.output = call.input

\* C10: rpng_chunk_remove_from_memory leaves out every chunk of the
\* requested type, except the IEND chunk that closes the stream, which it
\* always copies; the other chunks are copied unchanged in their order;
\* without a match the output is, byte for byte, the input.
RemoveOmitsEvery ==
    (call.op = "remove" /\ ValidStream(call.input)) =>
        /\ OutputIs(OmitAll(Chunks(call.input), call.chunk_type))
        /\ TypeCount(Chunks(call.input), call.chunk_type) = 0 => call.output = call.input

RemoveOmitsEveryWitness ==
    /\ call.op = "remove"
    /\ ValidStream(call.input)
    /\ TypeCount(Chunks(call.input), call.chunk_type) >= 2
    /\ TypeCount(Chunks(call.output), call.chunk_type) = 0
    /\ Len(Chunks(call.output)) >= 3

----------------------------------------------------------------------------
(* Properties of the single editing functions *)

\* the bytes a chunk must have on the wire: length big-endian, type, data,
\* CRC-32 of type and data big-endian
WireChunk(type, data) ==
    <<0, 0, Len(data) \div 256, Len(data) % 256>> \o type \o data
        \o compute_crc32(type \o data)

\* buf with the bytes new put in after its first chunk
SplicedAfterFirst(buf, new) ==
    LET first == 8 + Len(Chunks(buf)[1].bytes)
    IN  SubSeq(buf, 1, first) \o new \o SubSeq(buf, first + 1, Len(buf))

\* C11: rpng_chunk_write_from_memory on a valid stream puts the new chunk
\* (length, type, data, and the CRC-32 of type and data, whatever the crc
\* field of the caller's chunk holds) directly after the IHDR chunk and
\* nowhere else; the other bytes of the stream stay as they are, in their
\* order, and the output size is the input size + chunk.length + 12.
WriteSplicesAfterIHDR ==
    (call.op = "write" /\ ValidStream(call.input)) =>
        /\ call.output = SplicedAfterFirst(call.input,
                                           WireChunk(call.chunk.type, call.chunk.data))
        /\ call.output_size = Len(call.input) + call.chunk.length + 12
        /\ call.output_size = Len(call.output)

WriteSplicesWitness ==
    /\ call.op = "write"
    /\ ValidStream(call.input)
    /\ Len(Chunks(call.input)) >= 4
    /\ call.chunk.type = PLTE
    /\ call.chunk.crc # compute_crc32(call.chunk.type \o call.chunk.data)
    /\ Chunks(call.output)[2].type = PLTE
    /\ Chunks(call.output)[3].type = tEXt

RECURSIVE Cat(_)
\* the sequences of ss one after the other
Cat(ss) == IF ss = <<>> THEN <<>> ELSE Head(ss) \o Cat(Tail(ss))

Min(a, b) == IF a < b THEN a ELSE b

\* data cut into pieces of k bytes and a last piece of 1..k bytes, each an
\* IDAT chunk on the wire
PiecesOf(data, k) ==
    [j \in 1..((Len(data) + k - 1) \div k) |->
        WireChunk(IDAT, SubSeq(data, (j - 1) * k + 1, Min(j * k, Len(data))))]

\* what the chunks cs are after the split: an IDAT chunk of more than k
\* bytes in pieces, every other chunk as it is
SplitOf(cs, k) ==
    [i \in 1..Len(cs) |-> IF cs[i].type = IDAT /\ Len(cs[i].data) > k
                          THEN Cat(PiecesOf(cs[i].data, k))
                          ELSE cs[i].bytes]

\* C12: rpng_chunk_split_image_data_from_memory, on a valid stream and with
\* a piece size k >= 1, puts in the place of every IDAT chunk of more than
\* k bytes IDAT chunks of k bytes and a last one with the rest, in order and
\* with nothing between them, the data of which, joined, is the data of the
\* chunk; every IDAT chunk of the output has at most k bytes; the chunks of
\* other types and the IDAT chunks of at most k bytes are copied unchanged.
SplitMakesPieces ==
    (call.op = "split" /\ ValidStream(call.input)) =>
        /\ call.output = png_signature \o Cat(SplitOf(Chunks(call.input), call.split_size))
        /\ call.output_size = Len(call.output)
        /\ \A i \in 1..Len(Chunks(call.output)) :
              Chunks(call.output)[i].type = IDAT
                  => Len(Chunks(call.output)[i].data) <= call.split_size

SplitMakesPiecesWitness ==
    /\ call.op = "split"
    /\ ValidStream(call.input)
    /\ call.split_size = 3
    /\ TypeCount(Chunks(call.input), tEXt) = 1
    /\ \E i \in 1..Len(Chunks(call.input)) :
          Chunks(call.input)[i].type = IDAT /\ Len(Chunks(call.input)[i].data) = 1
    /\ \E i \in 1..Len(Chunks(call.input)) :
          /\ Chunks(call.input)[i].type = IDAT
          /\ Len(Chunks(call.input)[i].data) > 2 * call.split_size
          /\ Len(Chunks(call.input)[i].data) % call.split_size # 0
    /\ TypeCount(Chunks(call.output), IDAT) >= 5

\* the chunks of cs that are not IDAT chunks, in their order
NonIDAT(cs) == SelectSeq(cs, LAMBDA c : c.type # IDAT)

\* the data of the IDAT chunks of cs, joined in the order of the stream
IDATData(cs) == Cat([i \in 1..Len(cs) |-> IF cs[i].type = IDAT THEN cs[i].data ELSE <<>>])

\* C13: rpng_chunk_combine_image_data_from_memory, on a valid stream, gives
\* a stream with exactly one IDAT chunk, the data of which is the data of
\* all IDAT chunks of the input joined in the order of the stream; the
\* chunks that are not IDAT chunks are those of the input, byte for byte and
\* in the same order.
CombineMakesOne ==
    (call.op = "combine" /\ ValidStream(call.input)) =>
        /\ WellFormed(call.output)
        /\ call.output_size = Len(call.output)
        /\ TypeCount(Chunks(call.output), IDAT) = 1
        /\ \A i \in 1..Len(Chunks(call.output)) :
              Chunks(call.output)[i].type = IDAT
                  => Chunks(call.output)[i].bytes
                         = WireChunk(IDAT, IDATData(Chunks(call.input)))
        /\ BytesOf(NonIDAT(Chunks(call.output))) = BytesOf(NonIDAT(Chunks(call.input)))

CombineMakesOneWitness ==
    /\ call.op = "combine"
    /\ ValidStream(call.input)
    /\ TypeCount(Chunks(call.input), IDAT) >= 3
    /\ TypeCount(Chunks(call.input), tEXt) = 1
    /\ TypeCount(Chunks(call.output), IDAT) = 1
    /\ Len(Chunks(call.output)) = 4
    /\ Len(IDATData(Chunks(call.output))) >= 10

\* the types that rpng_chunk_remove_ancillary_from_memory is said to keep
Critical == {IHDR, PLTE, IDAT, IEND}

\* the last call, on a valid stream, was
\* rpng_chunk_remove_ancillary_from_memory
AncillaryRemoved == call.op = "remove_ancillary" /\ ValidStream(call.input)

----------------------------------------------------------------------------
(* Properties of the readers of chunks *)

\* chunk c of a stream as an rpng_chunk
AsChunk(c) == [length |-> Len(c.data), type |-> c.type, data |-> c.data, crc |-> c.crc]

\* C15: rpng_chunk_read_all_from_memory returns no list that is cut short
\* without notice: of a valid stream of at most RPNG_MAX_CHUNKS_COUNT chunks
\* it returns every chunk in the order of the stream, the last one IEND,
\* and their number is the number rpng_chunk_count_from_memory gives; of a
\* stream of more chunks it returns no list, which is its report of the
\* overflow.
ReadAllComplete ==
    (query.op = "read_all" /\ ValidStream(buffer)) =>
        IF Len(Chunks(buffer)) <= RPNG_MAX_CHUNKS_COUNT
        THEN /\ query.read.chunks # NULL
             /\ query.read.chunks = [i \in 1..Len(Chunks(buffer)) |-> AsChunk(Chunks(buffer)[i])]
             /\ query.read.chunks[Len(query.read.chunks)].type = IEND
             /\ query.count = CountOf(buffer)
        ELSE query.read.chunks = NULL

\* C16: rpng_chunk_read_from_memory, on a valid stream, returns for a type
\* that a chunk of the stream has, IEND among them, the first chunk of that
\* type in the order of the stream, with its length, its data and its
\* stored CRC; for a type that no chunk has it returns the empty chunk.
ReadReturnsFirst ==
    (query.op = "read" /\ ValidStream(buffer)) =>
        LET cs == Chunks(buffer)
            m  == {i \in 1..Len(cs) : cs[i].type = query.read.chunk_type}
        IN  IF m # {}
            THEN query.read.chunk = AsChunk(cs[CHOOSE i \in m : \A j \in m : i <= j])
            ELSE query.read.chunk = EmptyChunk

----------------------------------------------------------------------------
(* Properties of the decoder and of the encoder's filters *)

\* the IHDR data of a stream says a format the decoder does not support
Unsupported(buf) ==
    \/ At(buf, 8 + 8 + 9) = 3                   \* colour type 3
    \/ At(buf, 8 + 8 + 8) \notin {8, 16}        \* bit depth
    \/ At(buf, 8 + 8 + 12) # 0                  \* interlace

\* C17: for a stream whose IHDR has colour type 3, a bit depth other than 8
\* and 16 (with any colour type) or an interlace other than 0,
\* rpng_load_image_from_memory returns no pixel buffer.
RejectsUnsupported ==
    (query.op = "load" /\ call.op = "header" /\ Unsupported(buffer)) => query.load.data = NULL

\* the buffer the encoder handed to the deflate: the IDAT data of the
\* stream the last call made, inflated
Filtered == zsinflate(RPNG_MAX_OUTPUT_SIZE, Chunks(call.output)[2].data).out

\* the bytes of a scanline of the image
ScanlineSize == image.width * image.color_channels * (image.bit_depth \div 8)

RECURSIVE RowSum(_, _, _)
\* the sum, over the first n bytes of scanline y of the image, of the
\* absolute values of the bytes that filter makes of them, taken as signed
RowSum(filter, y, n) ==
    IF n = 0 THEN 0
    ELSE LET pixel_size == image.color_channels * (image.bit_depth \div 8)
             x == At(image.data, ScanlineSize * y + n - 1)
             a == NeighbourA(image.data, ScanlineSize, pixel_size, y, n - 1)
             b == NeighbourB(image.data, ScanlineSize, pixel_size, y, n - 1)
             c == NeighbourC(image.data, ScanlineSize, pixel_size, y, n - 1)
         IN  RowSum(filter, y, n - 1) + Abs(SChar(filter_out(filter, x, a, b, c)))

\* C18: the filter type byte the encoder writes for scanline y is a filter
\* in 0..4 whose sum, over the bytes of scanline y alone, of the absolute
\* values of the filtered bytes taken as signed 8-bit is the smallest of
\* the five; the sums of earlier scanlines have no part in it.
FilterChosenPerRow ==
    call.op = "save" =>
        \A y \in 0..(image.height - 1) :
            LET best == At(Filtered, y * (1 + ScanlineSize))
            IN  /\ best \in 0..4
                /\ \A filter \in 0..4 :
                      RowSum(best, y, ScanlineSize) <= RowSum(filter, y, ScanlineSize)

\* scanline y of the image after filter: byte by byte, the low 8 bits of
\* the difference
RowFiltered(filter, y) ==
    [q \in 1..ScanlineSize |->
        LET pixel_size == image.color_channels * (image.bit_depth \div 8)
        IN  UChar(filter_out(filter,
                             At(image.data, ScanlineSize * y + q - 1),
                             NeighbourA(image.data, ScanlineSize, pixel_size, y, q - 1),
                             NeighbourB(image.data, ScanlineSize, pixel_size, y, q - 1),
                             NeighbourC(image.data, ScanlineSize, pixel_size, y, q - 1)))]

\* C19: for every accepted width, height, channels and bit depth the buffer
\* handed to the deflate has height * (1 + B) bytes, B = width * channels *
\* (bit_depth / 8); the byte at y * (1 + B) is the filter type of scanline
\* y, in 0..4, and the B bytes after it are the filtered bytes of that
\* scanline; for a 2x2 RGBA 8-bit image these are 18 bytes with the filter
\* types at 0 and 9.
FilteredLayout ==
    call.op = "save" =>
        /\ Len(Filtered) = image.height * (1 + ScanlineSize)
        /\ \A y \in 0..(image.height - 1) :
              /\ At(Filtered, y * (1 + ScanlineSize)) \in 0..4
              /\ Bytes(Filtered, y * (1 + ScanlineSize) + 1, ScanlineSize)
                    = RowFiltered(At(Filtered, y * (1 + ScanlineSize)), y)
        /\ (image.width = 2 /\ image.height = 2 /\ image.color_channels = 4
               /\ image.bit_depth = 8)
              => Len(Filtered) = 18 /\ At(Filtered, 0) \in 0..4 /\ At(Filtered, 9) \in 0..4

FilteredLayoutWitness ==
    /\ call.op = "save"
    /\ image.width = 2 /\ image.height = 2
    /\ image.color_channels = 4 /\ image.bit_depth = 8
    /\ Len(Filtered) = 18
    /\ At(Filtered, 0) # 0
    /\ Bytes(Filtered, 1, 8) # Bytes(image.data, 0, 8)

\* the Paeth predictor of the PNG standard, computed in the integers
PaethReference(a, b, c) ==
    LET p  == a + b - c
        pa == IF p - a < 0 THEN a - p ELSE p - a
        pb == IF p - b < 0 THEN b - p ELSE p - b
        pc == IF p - c < 0 THEN c - p ELSE p - c
    IN  IF pa <= pb /\ pa <= pc THEN a ELSE IF pb <= pc THEN b ELSE c

\* C20: for all a, b and c in 0..255 rpng_paeth_predictor(a, b, c) is the
\* predictor of the reference (p = a + b - c, pa = |p - a|, pb = |p - b|,
\* pc = |p - c|; a if pa <= pb and pa <= pc, else b if pb <= pc, else c),
\* no value on the way to the comparisons being reduced modulo 256.
PaethEqualsReference ==
    (query.op = "paeth" /\ query.pr # -1) =>
        query.pr = PaethReference(query.a, query.b, query.c)

PaethWitness ==
    /\ query.op = "paeth"
    /\ query.pr # -1
    /\ query.a + query.b - query.c > 255
    /\ query.a # query.b
    /\ query.pr = query.b

----------------------------------------------------------------------------
(* Buffers that are no complete stream.  The functions are handed a        *)
(* pointer and no length: what they read is decided by the bytes alone.    *)

EditOps == {"remove", "remove_ancillary", "write", "combine", "split"}

\* the last call was an editing function called with a given buffer of bufs
EditOf(bufs) == call.op \in EditOps /\ prev.op = "given" /\ call.input \in bufs

\* the last call was reading function op called with a given buffer of bufs
QueryOf(op, bufs) == query.op = op /\ call.op = "given" /\ buffer \in bufs

\* C21: for every buffer that is NULL or does not start with the 8 bytes of
\* the signature, count returns 0, read returns the empty chunk, read_all
\* returns no chunks and the count 0, and each editing function returns no
\* output buffer and the output size 0, no byte outside the buffer being
\* read on the way.
SignatureRejected ==
    /\ EditOf(Unsigned) =>
          /\ ~call.overrun
          /\ call.output = NULL
          /\ call.output_size = 0
    /\ QueryOf("count", Unsigned) => (~query.overrun /\ query.count = 0)
    /\ QueryOf("read", Unsigned) => (~query.overrun /\ query.read.chunk = EmptyChunk)
    /\ QueryOf("read_all", Unsigned) =>
          /\ ~query.overrun
          /\ query.count = 0
          /\ query.read.chunks \in {NULL, <<>>}

\* C22: for every buffer that starts with the signature and in which a
\* chunk header or a chunk payload runs past the end of the buffer, or that
\* has no IEND chunk, count, read, read_all and the editing functions return
\* without a read beyond the end of the buffer, the editing functions with
\* no output buffer.
TruncatedReported ==
    /\ EditOf(Truncated) =>
          /\ ~call.overrun
          /\ call.output = NULL
    /\ \A op \in {"count", "read", "read_all"} : QueryOf(op, Truncated) => ~query.overrun

----------------------------------------------------------------------------
(* The blocks and sequences of the encoder *)

\* sdefl_compr has returned
Compressed == query.op = "deflate" /\ query.returned

\* C23: for every input length and level 0..8 sdefl_compr writes blocks of
\* dynamic Huffman codes (BTYPE = 2), each begun at most SDEFL_BLK_MAX bytes
\* of input after the one before, of which exactly one has BFINAL = 1: the
\* last one written.
BlockStructure ==
    Compressed =>
        LET blocks == query.blocks
        IN  /\ Len(blocks) >= 1
            /\ \A j \in 1..Len(blocks) : blocks[j].btype = 2
            /\ \A j \in 2..Len(blocks) : blocks[j].from - blocks[j - 1].from <= SDEFL_BLK_MAX
            /\ \A j \in 1..Len(blocks) : (blocks[j].bfinal = 1) <=> (j = Len(blocks))

\* C29: for every input and level the assertion of sdefl_seq,
\* seq_cnt + 2 < SDEFL_SEQ_SIZ, holds at every call: the sequences stored
\* for a block never fill the buffer.
SeqBufferNeverFull == query.op = "deflate" => ~query.asserted

----------------------------------------------------------------------------
(* The decoder on stored blocks and fixed codes *)

\* sinflate or zsinflate has returned
Inflated == query.op = "inflate" /\ query.returned

\* the decoder was followed to its return: n is the value returned
Followed == Inflated /\ ~query.end.other

\* C24: for every stream and capacity cap, sinflate and zsinflate write no
\* byte at out + cap or behind it, for a literal, a match or a stored block,
\* and when the stream stands for more than cap bytes they return a failure
\* (-1), not a count of bytes.
CapacityRespected ==
    /\ Inflated => ~query.end.overflow
    /\ (Followed /\ Len(query.stream.data) > query.cap) => query.n = -1

\* C25: when the decoder has read a block header with BTYPE = 3, or a stored
\* block whose NLEN is not the complement of LEN, the call returns a failure
\* (-1), which no decode of the bytes put out so far returns.
MalformedRejected ==
    (Followed /\ (query.end.bad_type \/ query.end.bad_nlen)) => query.n = -1

\* C26: for every stored block with 1 <= LEN <= the input that is left, the
\* LEN bytes appended to the output are the LEN input bytes after the NLEN
\* field, and the decoder reads its next block header at the byte after
\* them.
StoredCopied ==
    Inflated =>
        \A j \in 1..Len(query.end.stored) :
            LET b == query.end.stored[j]
            IN  (1 <= b.len /\ b.data + b.len <= Len(query.m.mem)) =>
                    /\ b.copied = Bytes(query.m.mem, b.data, b.len)
                    /\ b.next = b.data + b.len

----------------------------------------------------------------------------
(* The bit count *)

\* after sinfl_refill the count is in 56..63
RefillRange == query.op = "budget" => query.b.refilled \in {-1} \cup 56..63

\* C28: after every sinfl_refill the bit count is in 56..63, and no peek or
\* consume of the block loop between two refills (two literal/length codes,
\* the extra bits of the length, a distance code and its extra bits) asks
\* for more bits than the count: no assertion of sinfl_peek or
\* sinfl_consume fails.
BitBudget == RefillRange /\ (query.op = "budget" => ~query.b.asserted)

----------------------------------------------------------------------------
(* The buffers of the decoder *)

\* rpng_load_image_from_memory has returned, and what it did is known
Loaded == query.op = "load" /\ ~query.load.undefined

\* C27: on every return of rpng_load_image_from_memory (an image, an
\* unsupported bit depth or colour type, an IDAT whose CRC does not match,
\* an inflate that failed) every buffer the call allocated, but the pixel
\* buffer it returns, has been freed: the array of chunks, the data of each
\* chunk, the inflate buffer of each IDAT.
LoadFreesAll == Loaded => query.load.unfreed = {}

\* C30: the reverse filter reads the inflate buffer of an IDAT only below
\* the number of bytes inflated into it: with fewer than
\* height*(1 + width*channels*(bit_depth/8)) bytes inflated nothing is
\* reversed.
UnfilterInside == query.op = "load" => ~query.load.beyond
====
